---- MODULE Spec2Model ----
(***************************************************************************)
(* Model of the zealux phase-graph engine: validateProcess, the two        *)
(* revisions of executeProcess / executeNodeRecursive kept in the          *)
(* repository (the Termination-based engine of src/src/phase.ts and the    *)
(* gatherResults-based engine of src/src/execution.ts) and gatherResults.  *)
(*                                                                         *)
(* A phase is host code: its invocation is an event of the model, and its  *)
(* outcome (a synchronous throw, a later resolution, a later rejection) is *)
(* chosen nondeterministically.  The same holds for the outcome of a       *)
(* transform and of a terminate callback.  The values that flow through    *)
(* the graph are sequences of tags: phase p turns input i into <<p>> \o i  *)
(* and transform t turns output o into <<t>> \o o.                         *)
(***************************************************************************)
EXTENDS Naturals, Sequences, FiniteSets, TLC

----------------------------------------------------------------------------
(* Bounds *)

\* number of phase nodes of the generated process definitions
NumNodes == 3

NodeName == <<"p1", "p2", "p3", "p4", "p5", "p6">>

P(i) == NodeName[i]

Ids == {P(i) : i \in 1..NumNodes}

\* an id that is no key of any phases collection
Dangling == "pNonExistent"

\* a key every object literal inherits from Object.prototype: phases[Inherited] is a
\* function, hence truthy, although Inherited is no key of the phases collection
Inherited == "toString"

InitialInputs == {<<"start">>}

----------------------------------------------------------------------------
(* Data model: Connection, Termination, PhaseNode, Process *)

NoTransform == "none"

EmptyMap == [k \in {} |-> <<>>]

\* transforms that return the context they were given
KeepContext == {"tKeep"}

\* a field value that is there but is no string (a number, null)
NotAString == "#42"

\* A value met where a connection or a 'next' is expected is a record of what the code
\* probes of it.  type is "object" for an object or an array, "null", "undefined" or
\* "primitive" (a next list only tells null or undefined, as "null", from objects and
\* primitives); a field the value does not have is "undefined" (id, targetPhaseNodeId)
\* or "none" (transform, terminate); kind tells an array ("connections") from the other
\* objects.
Connection(target, transform) ==
    [type |-> "object", kind |-> "connection", conns |-> <<>>, id |-> "undefined",
     terminate |-> "none", targetPhaseNodeId |-> target, transform |-> transform]

To(target) == Connection(target, NoTransform)

\* next: Connection[]
Connections(conns) ==
    [type |-> "object", kind |-> "connections", conns |-> conns, id |-> "undefined",
     terminate |-> "none", targetPhaseNodeId |-> "undefined", transform |-> NoTransform]

\* next: Termination; terminate is "fn" (a function) or "none" (absent)
Termination(id, terminate) ==
    [type |-> "object", kind |-> "termination", conns |-> <<>>, id |-> id,
     terminate |-> terminate, targetPhaseNodeId |-> "undefined", transform |-> NoTransform]

\* phase is "fn" when phase.execute is a function, "noexecute" otherwise; type is
\* "object" for a node object and "null" when the entry of the phases collection is null
PhaseNode(id, phase, next, isEndPhase) ==
    [type |-> "object", id |-> id, phase |-> phase, next |-> next,
     isEndPhase |-> isEndPhase]

Node(id, next) == PhaseNode(id, "fn", next, FALSE)

\* type is what the value handed over as the process is ("object", "null" for null or
\* undefined, "primitive"); phasesType what its phases field is ("object", "undefined",
\* "number")
Process(startPhaseId, phases) ==
    [type |-> "object", phasesType |-> "object", startPhaseId |-> startPhaseId,
     phases |-> phases, context |-> <<>>]

isConnection(item) == item.type = "object" /\ item.targetPhaseNodeId # "undefined"

isTermination(item) ==
    /\ item.type = "object"
    /\ item.targetPhaseNodeId = "undefined"
    /\ item.terminate = "fn"
    /\ item.id \notin {"undefined", NotAString}

\* The values handed to isPhase, isPhaseNode and isProcess are records of the typeof of
\* each field the predicate probes ("undefined" for a field that is not there, "null"
\* for one that is null); type is what the value itself is.  The phase and next fields
\* of a node value are values of their own.
PhaseValue(type, name, execute) == [type |-> type, name |-> name, execute |-> execute]

PhaseNodeValue(type, id, phase, next) ==
    [type |-> type, id |-> id, phase |-> phase, next |-> next]

ProcessValue(type, name, ctx, phases, startPhaseId) ==
    [type |-> type, name |-> name, context |-> ctx, phases |-> phases,
     startPhaseId |-> startPhaseId]

isPhase(obj) ==
    /\ obj.type = "object"
    /\ obj.name = "string"
    /\ obj.execute = "function"

\* typeof x === 'object' holds for objects, arrays and null
isPhaseNode(obj) ==
    /\ obj.type = "object"
    /\ obj.id = "string"
    /\ obj.phase.type \in {"object", "null"}
    /\ isPhase(obj.phase)
    /\ obj.next.type \in {"object", "null"}

isProcess(obj) ==
    /\ obj.type = "object"
    /\ obj.name = "string"
    /\ obj.context \in {"object", "null"}
    /\ obj.phases \in {"object", "null"}
    /\ obj.startPhaseId = "string"

----------------------------------------------------------------------------
(* The process definitions the runs are drawn from *)

TransformName == <<"tA", "tB", "tC", "tD", "tE", "tF">>

Leaf == Connections(<<>>)

IndexOf(k) == CHOOSE i \in 1..NumNodes : P(i) = k

\* p1 -> p2 -> ... -> pN, the first edge carrying transform tr
Chain(tr) ==
    Process(P(1), [k \in Ids |->
        IF k = P(NumNodes) THEN Node(k, Leaf)
        ELSE IF k = P(1) THEN Node(k, Connections(<<Connection(P(2), tr)>>))
        ELSE Node(k, Connections(<<To(P(IndexOf(k) + 1))>>))])

\* p1 -> [p2, ..., pN]; tr[j] is the transform of the j-th edge
Fan(tr) ==
    Process(P(1), [k \in Ids |->
        IF k = P(1)
        THEN Node(k, Connections([j \in 1..(NumNodes - 1) |-> Connection(P(j + 1), tr[j])]))
        ELSE Node(k, Leaf)])

NoTransforms == [j \in 1..(NumNodes - 1) |-> NoTransform]

AllTransforms == [j \in 1..(NumNodes - 1) |-> TransformName[j]]

OneTransform(i) == [j \in 1..(NumNodes - 1) |-> IF j = i THEN "tA" ELSE NoTransform]

\* p1 -> ... -> p(N-1) -> [p1, pN]: a cycle back to the start, back edge with transform tr
Cycle(tr) ==
    Process(P(1), [k \in Ids |->
        IF k = P(NumNodes) THEN Node(k, Leaf)
        ELSE IF k = P(NumNodes - 1)
        THEN Node(k, Connections(<<Connection(P(1), tr), To(P(NumNodes))>>))
        ELSE Node(k, Connections(<<To(P(IndexOf(k) + 1))>>))])

\* p1 -> [p2, ..., pN] and p2, ..., p(N-1) -> pN: pN is reached along several paths
Diamond ==
    Process(P(1), [k \in Ids |->
        IF k = P(1)
        THEN Node(k, Connections([j \in 1..(NumNodes - 1) |-> To(P(j + 1))]))
        ELSE IF k = P(NumNodes) THEN Node(k, Leaf)
        ELSE Node(k, Connections(<<To(P(NumNodes))>>))])

\* p1 -> [p1, p2], then the chain
SelfLoop ==
    Process(P(1), [k \in Ids |->
        IF k = P(1) THEN Node(k, Connections(<<To(P(1)), To(P(2))>>))
        ELSE Chain(NoTransform).phases[k]])

\* p1 -> [p2, p2], then the chain
Duplicate ==
    Process(P(1), [k \in Ids |->
        IF k = P(1) THEN Node(k, Connections(<<To(P(2)), To(P(2))>>))
        ELSE Chain(NoTransform).phases[k]])

\* p1 -> ... -> p(N-1), and pN that no path from the start reaches
Unreachable ==
    Process(P(1), [k \in Ids |->
        IF k \in {P(NumNodes), P(NumNodes - 1)} THEN Node(k, Leaf)
        ELSE Node(k, Connections(<<To(P(IndexOf(k) + 1))>>))])

\* the chain, ending in a Termination
ChainTermination(id, terminate) ==
    Process(P(1), [k \in Ids |->
        IF k = P(NumNodes) THEN Node(k, Termination(id, terminate))
        ELSE Chain("tKeep").phases[k]])

\* p1 -> [p2, ..., pN]; p2 ends in Termination id2, the others in Termination idRest
FanTermination(id2, idRest) ==
    Process(P(1), [k \in Ids |->
        IF k = P(1) THEN Fan(NoTransforms).phases[k]
        ELSE IF k = P(2) THEN Node(k, Termination(id2, "fn"))
        ELSE Node(k, Termination(idRest, "fn"))])

\* p1 -> [p2, ..., pN]; p2 ends in a Termination whose id is the id of leaf pN
FanTerminationLeaf ==
    Process(P(1), [k \in Ids |->
        IF k = P(2) THEN Node(k, Termination(P(NumNodes), "fn"))
        ELSE Fan(NoTransforms).phases[k]])

\* p1 -tA-> p2 -tB-> ... -> pN, every edge with a transform of its own, pN ending in a
\* Termination
TransformTermination ==
    Process(P(1), [k \in Ids |->
        IF k = P(NumNodes) THEN Node(k, Termination("end", "fn"))
        ELSE Node(k, Connections(<<Connection(P(IndexOf(k) + 1), TransformName[IndexOf(k)])>>))])

\* p1 -> [p2, ..., pN], and every successor with one connection to the next successor
\* (the last one to p2), each with a transform of its own: the branches p1 starts
\* reach one another while they run
Crossed ==
    Process(P(1), [k \in Ids |->
        IF k = P(1) THEN Fan(NoTransforms).phases[k]
        ELSE Node(k, Connections(<<Connection(
                 IF k = P(NumNodes) THEN P(2) ELSE P(IndexOf(k) + 1),
                 TransformName[IndexOf(k) - 1])>>))])

ValidShapes ==
    {Chain(NoTransform), Chain("tA"), Chain("tKeep"), TransformTermination, Crossed}
    \cup {Fan(NoTransforms), Fan(AllTransforms)}
    \cup {Fan(OneTransform(i)) : i \in 1..(NumNodes - 1)}
    \cup {Cycle(NoTransform), Cycle("tA")}
    \cup {Diamond, SelfLoop, Duplicate, Unreachable}
    \cup {ChainTermination("end", "fn"), FanTermination("end", "end2"),
          FanTermination("end", "end"), FanTerminationLeaf}

\* definitions with a defect
DanglingStart == [Chain(NoTransform) EXCEPT !.startPhaseId = Dangling]

DanglingTarget ==
    [Chain(NoTransform) EXCEPT !.phases[P(1)].next = Connections(<<To(Dangling)>>)]

DanglingTargetUnreachable ==
    [Unreachable EXCEPT !.phases[P(NumNodes)].next = Connections(<<To(Dangling)>>)]

IdMismatch == [Chain(NoTransform) EXCEPT !.phases[P(2)].id = "wrong-id"]

NoExecute == [Chain(NoTransform) EXCEPT !.phases[P(2)].phase = "noexecute"]

TerminationNoCallback == ChainTermination("end", "none")

DefectShapes ==
    {DanglingStart, DanglingTarget, DanglingTargetUnreachable, IdMismatch,
     NoExecute, TerminationNoCallback}

\* definitions validateProcess accepts although an id names no node
InheritedStart == [Chain(NoTransform) EXCEPT !.startPhaseId = Inherited]

InheritedTarget ==
    [Chain(NoTransform) EXCEPT !.phases[P(1)].next = Connections(<<To(Inherited), To(P(2))>>)]

InheritedShapes == {InheritedStart, InheritedTarget}

\* values of 'next' that are neither a connection list nor a Termination
Missing ==
    [type |-> "null", kind |-> "missing", conns |-> <<>>, id |-> "undefined",
     terminate |-> "none", targetPhaseNodeId |-> "undefined", transform |-> NoTransform]

Primitive ==
    [type |-> "primitive", kind |-> "primitive", conns |-> <<>>, id |-> "undefined",
     terminate |-> "none", targetPhaseNodeId |-> "undefined", transform |-> NoTransform]

\* entries of a next list that are no connection objects
NullEntry == [Missing EXCEPT !.kind = "connection"]

PrimitiveEntry == [Primitive EXCEPT !.kind = "connection"]

\* the defects one node of a definition can be given
NodeDefects ==
    [idMismatch : BOOLEAN, noExecute : BOOLEAN,
     next : {"ok", "dangling", "inherited", "nonfn", "missing", "primitive", "termination"}]

\* the nodes that are given defects in combination: the start node and its successor
DefectIds == {P(1), P(2)}

\* the chain with startPhaseId start and the defects d[k] in node k
Defective(start, d) ==
    Process(start, [k \in Ids |->
        IF k \notin DefectIds THEN Chain(NoTransform).phases[k]
        ELSE PhaseNode(
            IF d[k].idMismatch THEN "wrong-id" ELSE k,
            IF d[k].noExecute THEN "noexecute" ELSE "fn",
            CASE d[k].next = "ok" -> Chain(NoTransform).phases[k].next
              [] d[k].next = "dangling" -> Connections(<<To(Dangling)>>)
              [] d[k].next = "inherited" -> Connections(<<To(Inherited)>>)
              [] d[k].next = "nonfn" -> Connections(<<Connection(P(IndexOf(k) + 1), "nonfn")>>)
              [] d[k].next = "missing" -> Missing
              [] d[k].next = "primitive" -> Primitive
              [] d[k].next = "termination" -> Termination("undefined", "fn"),
            FALSE)])

DefectiveShapes ==
    {Defective(start, d) : start \in {P(1), Dangling, Inherited}, d \in [DefectIds -> NodeDefects]}

\* values that are no well-formed process definition
NullProcess == [Chain(NoTransform) EXCEPT !.type = "null"]

PrimitiveProcess == [Chain(NoTransform) EXCEPT !.type = "primitive"]

PhasesMissing(start) == [Process(start, EmptyMap) EXCEPT !.phasesType = "undefined"]

PhasesNumber(start) == [Process(start, EmptyMap) EXCEPT !.phasesType = "number"]

NoPhases == Process(P(1), EmptyMap)

\* the chain with null in place of node k
NullNode(k) == [Chain(NoTransform) EXCEPT !.phases[k].type = "null"]

\* node k of the chain with next list conns
WithNext(k, next) == [Chain(NoTransform) EXCEPT !.phases[k].next = next]

MalformedShapes ==
    {NullProcess, PrimitiveProcess, NoPhases}
    \cup {NullNode(k) : k \in Ids}
    \cup {PhasesMissing(start) : start \in {P(1), "undefined"}}
    \cup {PhasesNumber(start) : start \in {P(1), "undefined", Inherited}}
    \cup {WithNext(k, Connections(<<entry, To(P(NumNodes))>>)) :
             k \in Ids, entry \in {NullEntry, PrimitiveEntry}}
    \cup {WithNext(k, Connections(<<To(P(NumNodes)), entry>>)) :
             k \in Ids, entry \in {NullEntry, PrimitiveEntry}}
    \cup {WithNext(k, next) : k \in Ids, next \in {Missing, Primitive}}
    \cup {WithNext(k, Connections(<<Connection(target, "nonfn")>>)) :
             k \in Ids, target \in {P(NumNodes), Dangling, "undefined"}}

\* the same definition with isEndPhase: true on the nodes of ends
WithEnds(proc, ends) ==
    [proc EXCEPT !.phases = [k \in DOMAIN proc.phases |->
        [proc.phases[k] EXCEPT !.isEndPhase = (k \in ends)]]]

Processes ==
    {WithEnds(proc, ends) :
        proc \in ValidShapes \cup DefectShapes \cup InheritedShapes, ends \in SUBSET Ids}
    \cup DefectiveShapes \cup MalformedShapes

----------------------------------------------------------------------------
(* Validator *)

Defect(defect, node, target) == [defect |-> defect, node |-> node, target |-> target]

\* what a call of validateProcess comes to: the list it returns, or a TypeError
Returned(errs) == [threw |-> FALSE, errors |-> errs]

Threw == [threw |-> TRUE, errors |-> <<>>]

\* Object.keys(process.phases), in insertion order
phaseIds(process) ==
    IF process.phasesType = "object"
    THEN SelectSeq(SubSeq(NodeName, 1, NumNodes), LAMBDA k : k \in DOMAIN process.phases)
    ELSE <<>>

\* process.phases[id] is truthy: id is a key of the collection, or a key inherited from
\* the prototype
hasPhase(process, id) ==
    /\ process.phasesType \in {"object", "number"}
    /\ id \in DOMAIN process.phases \cup {Inherited}
    /\ id \in DOMAIN process.phases => process.phases[id].type = "object"

\* the defects of one connection of node id
connectionDefects(process, id, connection) ==
    (IF connection.type # "object"
        \/ connection.targetPhaseNodeId \in {"undefined", "", NotAString}
     THEN <<Defect("invalid connection (targetPhaseNodeId missing or invalid)", id, "")>>
     ELSE IF ~hasPhase(process, connection.targetPhaseNodeId)
     THEN <<Defect("connection to non-existent targetPhaseNodeId", id,
                   connection.targetPhaseNodeId)>>
     ELSE <<>>)
    \o
    (IF connection.transform = "nonfn"
     THEN <<Defect("invalid transform (should be a function)", id,
                   connection.targetPhaseNodeId)>>
     ELSE <<>>)

RECURSIVE connectionsDefects(_, _, _)
connectionsDefects(process, id, conns) ==
    IF conns = <<>> THEN <<>>
    ELSE connectionDefects(process, id, Head(conns))
         \o connectionsDefects(process, id, Tail(conns))

\* the defects of 'next' as the validator of the Termination-based engine sees them
nextDefects(process, id, next) ==
    IF next.kind = "missing"
    THEN <<Defect("missing 'next' property", id, "")>>
    ELSE IF next.kind = "connections"
    THEN connectionsDefects(process, id, next.conns)
    ELSE IF next.kind = "termination"
    THEN IF next.id \in {"undefined", NotAString} \/ next.terminate # "fn"
         THEN <<Defect("invalid Termination object for 'next'", id, "")>>
         ELSE <<>>
    ELSE <<Defect("invalid 'next' property type", id, "")>>

\* the defects of 'next' as the validator of the gatherResults-based engine sees them
nextDefectsArray(process, id, next) ==
    IF next.kind # "connections"
    THEN <<Defect("invalid 'next' property (should be an array)", id, "")>>
    ELSE connectionsDefects(process, id, next.conns)

\* arrayOnly: the validator that wants 'next' to be an array
nodeDefects(process, id, arrayOnly) ==
    LET node == process.phases[id] IN
    IF node.type # "object"
    THEN <<Defect("PhaseNode definition is missing or invalid", id, "")>>
    ELSE
    (IF node.id # id THEN <<Defect("id does not match its key", id, node.id)>> ELSE <<>>)
    \o (IF node.phase # "fn"
        THEN <<Defect("missing a valid phase instance with an execute method", id, "")>>
        ELSE <<>>)
    \o (IF arrayOnly THEN nextDefectsArray(process, id, node.next)
        ELSE nextDefects(process, id, node.next))

RECURSIVE nodesDefects(_, _, _)
nodesDefects(process, ids, arrayOnly) ==
    IF ids = <<>> THEN <<>>
    ELSE nodeDefects(process, Head(ids), arrayOnly)
         \o nodesDefects(process, Tail(ids), arrayOnly)

phasesDefects(process) ==
    IF process.phasesType # "object"
    THEN <<Defect("'phases' collection is missing or not an object", "", "")>>
    ELSE <<>>

startDefects(process) ==
    (IF process.startPhaseId \in {"undefined", "", NotAString}
     THEN <<Defect("'startPhaseId' is missing or invalid", "", "")>>
     ELSE IF process.phasesType # "undefined" /\ ~hasPhase(process, process.startPhaseId)
     THEN <<Defect("Start phase ID does not exist in the phases collection", "",
                   process.startPhaseId)>>
     ELSE <<>>)
    \o (IF phaseIds(process) = <<>> /\ process.startPhaseId \notin {"undefined", ""}
        THEN <<Defect("Process has a startPhaseId but no phases defined", "", "")>>
        ELSE <<>>)

rootDefects == <<Defect("Process definition is missing or not an object", "", "")>>

\* the loop over a next list reads connection.transform of an entry that is null or
\* undefined: a TypeError
connectionThrows(process) ==
    \E i \in 1..Len(phaseIds(process)) :
        LET next == process.phases[phaseIds(process)[i]].next
        IN /\ process.phases[phaseIds(process)[i]].type = "object"
           /\ next.kind = "connections"
           /\ \E j \in 1..Len(next.conns) : next.conns[j].type = "null"

\* the node ids the reachability walk visits: from the start node along the next lists
RECURSIVE visited(_, _, _)
visited(process, seen, k) ==
    LET succ == UNION {{process.phases[n].next.conns[j].targetPhaseNodeId :
                           j \in 1..Len(process.phases[n].next.conns)} : n \in seen}
        more == {n \in (seen \cup succ) \cap DOMAIN process.phases :
                    process.phases[n].type = "object"}
    IN IF k = 0 \/ more = seen THEN seen ELSE visited(process, more, k - 1)

\* the reachability walk of the older validator calls next.forEach on every node it
\* visits whose next is truthy: a TypeError when that next is not an array
walkThrows(process) ==
    /\ process.phasesType = "object"
    /\ hasPhase(process, process.startPhaseId)
    /\ process.startPhaseId \in DOMAIN process.phases
    /\ \E n \in visited(process, {process.startPhaseId}, NumNodes) :
          process.phases[n].next.kind \in {"termination", "primitive"}

\* the node ids the reachability walk of validateProcess visits (its set 'visited'); the
\* walk follows the next lists only, and starts only when phases[startPhaseId] is truthy
walkVisited(process) ==
    IF /\ process.phasesType = "object"
       /\ hasPhase(process, process.startPhaseId)
       /\ process.startPhaseId \in DOMAIN process.phases
    THEN visited(process, {process.startPhaseId}, NumNodes)
    ELSE {}

\* the walk reads conn.targetPhaseNodeId of every entry of the next list of a visited
\* node: a TypeError when the entry is null or undefined
walkThrowsEntry(process) ==
    \E n \in walkVisited(process) :
        /\ process.phases[n].next.kind = "connections"
        /\ \E j \in 1..Len(process.phases[n].next.conns) :
              process.phases[n].next.conns[j].type = "null"

\* validateProcess that reports the nodes its reachability walk did not visit
validateProcessReachability(process) ==
    IF process.type # "object" THEN Returned(rootDefects)
    ELSE IF connectionThrows(process) \/ walkThrowsEntry(process) THEN Threw
    ELSE Returned(phasesDefects(process) \o startDefects(process)
                  \o nodesDefects(process, phaseIds(process), FALSE)
                  \o [i \in 1..Len(SelectSeq(phaseIds(process),
                                     LAMBDA k : k \notin walkVisited(process))) |->
                         Defect("unreachable from the start phase",
                                SelectSeq(phaseIds(process),
                                    LAMBDA k : k \notin walkVisited(process))[i], "")])

\* validateProcess that goes on probing a value that is no object: reading a field of
\* null is a TypeError, the fields of a primitive are undefined
validateProcessProbing(process) ==
    IF process.type = "null" THEN Threw
    ELSE IF process.type # "object"
    THEN Returned(rootDefects
                  \o <<Defect("'phases' collection is missing or not an object", "", ""),
                       Defect("'startPhaseId' is missing or invalid", "", "")>>)
    ELSE IF connectionThrows(process) THEN Threw
    ELSE Returned(phasesDefects(process) \o startDefects(process)
                  \o nodesDefects(process, phaseIds(process), FALSE))

\* validateProcess of the Termination-based engine
validateProcess(process) ==
    IF process.type # "object" THEN Returned(rootDefects)
    ELSE IF connectionThrows(process) \/ walkThrowsEntry(process) THEN Threw
    ELSE Returned(phasesDefects(process) \o startDefects(process)
                  \o nodesDefects(process, phaseIds(process), FALSE))

\* validateProcess of the gatherResults-based engine
validateProcessArray(process) ==
    IF process.type # "object" THEN Returned(rootDefects)
    ELSE IF connectionThrows(process) \/ walkThrows(process) THEN Threw
    ELSE Returned(phasesDefects(process) \o startDefects(process)
                  \o nodesDefects(process, phaseIds(process), TRUE))

----------------------------------------------------------------------------
(* Run state *)

VARIABLES
    engine,            \* which revision of executeProcess runs: "phase" is the
                       \* Termination-based one, "execution" the gatherResults-based one
    process,           \* the Process value handed to executeProcess (its declaration)
    initialInput,      \* the input handed to executeProcess
    context,           \* state.process.context
    pc,                \* position of the executeProcess call
    thrown,            \* the error executeProcess rejected with
    phaseResults,      \* state.phaseResults: node id -> output
    results,           \* state.results: result key -> output
    activeExecutions,  \* keys of state.activeExecutions
    errors,            \* state.errors
    pending,           \* node id -> input of the phase promise that is not settled yet
    startPromise,      \* the promise executeProcess awaits
    calls,             \* node id -> inputs its phase.execute was called with
    transformCalls,    \* the transform evaluations, in order
    terminateCalls,    \* the terminate evaluations, in order (returns: what the
                       \* callback returns when it does not throw)
    returned,          \* the value executeProcess resolved with
    warnings,          \* what the run has written with console.warn
    otherCall          \* the state of a second executeProcess call on the same Process
                       \* value, while the steps of the first one are taken

vars == <<engine, process, initialInput, context, pc, thrown, phaseResults, results,
          activeExecutions, errors, pending, startPromise, calls, transformCalls,
          terminateCalls, returned, warnings, otherCall>>

MapSet(m, key, value) == [k \in DOMAIN m \cup {key} |-> IF k = key THEN value ELSE m[k]]

MapDelete(m, key) == [k \in DOMAIN m \ {key} |-> m[k]]

ExecutionError(nodeId, error) == [nodeId |-> nodeId, error |-> error]

\* what a phase computes: "<name> processed <input>"
execute(nodeId, input) == <<nodeId>> \o input

\* what a terminate callback returns: the output, marked terminated
terminate(output, ctx) == Append(output, "terminated")

\* what a transform computes: the next input and the next context
transform(name, output, ctx) ==
    <<(<<name>> \o output), (IF name \in KeepContext THEN ctx ELSE Append(ctx, name))>>

\* The state a call of executeProcess creates for itself (const state: ExecutionState),
\* with what the model records of the call; call names the call.
NewCall(call) ==
    [call |-> call, pc |-> "idle", thrown |-> <<>>, phaseResults |-> EmptyMap,
     results |-> EmptyMap, activeExecutions |-> {}, errors |-> <<>>, pending |-> EmptyMap,
     startPromise |-> "none", calls |-> [k \in Ids |-> <<>>], transformCalls |-> <<>>,
     terminateCalls |-> <<>>, returned |-> <<>>]

Init ==
    /\ engine \in {"phase", "execution"}
    /\ process \in Processes
    /\ initialInput \in InitialInputs
    /\ context = process.context
    /\ pc = "idle"
    /\ thrown = <<>>
    /\ phaseResults = EmptyMap
    /\ results = EmptyMap
    /\ activeExecutions = {}
    /\ errors = <<>>
    /\ pending = EmptyMap
    /\ startPromise = "none"
    /\ calls = [k \in Ids |-> <<>>]
    /\ transformCalls = <<>>
    /\ terminateCalls = <<>>
    /\ returned = <<>>
    /\ warnings = <<>>
    /\ otherCall = NewCall("B")

----------------------------------------------------------------------------
(* executeNodeRecursive *)

\* The part of the run state one synchronous stretch of executeNodeRecursive changes.
RunState ==
    [context |-> context, errors |-> errors, activeExecutions |-> activeExecutions,
     pending |-> pending, calls |-> calls, transformCalls |-> transformCalls]

\* executeNodeRecursive without its check of the completed results
executeNodeRecursiveNoCache(nodeId, input, st, phaseRes, sync) ==
    IF nodeId \in st.activeExecutions THEN st
    ELSE IF ~hasPhase(process, nodeId)
    THEN [st EXCEPT !.errors = Append(@, ExecutionError(nodeId, "not found"))]
    ELSE IF nodeId \notin DOMAIN process.phases
    THEN \* node is an inherited function: reading node.phase.execute is a TypeError
         [st EXCEPT !.errors = Append(@, ExecutionError(nodeId, "TypeError")),
                    !.activeExecutions = @ \cup {nodeId}]
    ELSE IF sync = "throw"
    THEN [st EXCEPT !.calls[nodeId] = Append(@, input),
                    !.errors = Append(@, ExecutionError(nodeId, "phase")),
                    !.activeExecutions = @ \cup {nodeId}]
    ELSE [st EXCEPT !.calls[nodeId] = Append(@, input),
                    !.pending = MapSet(@, nodeId, input),
                    !.activeExecutions = @ \cup {nodeId}]

\* executeNodeRecursive without its check of the in-flight table
executeNodeRecursiveNoActive(nodeId, input, st, phaseRes, sync) ==
    IF nodeId \in DOMAIN phaseRes THEN st
    ELSE IF ~hasPhase(process, nodeId)
    THEN [st EXCEPT !.errors = Append(@, ExecutionError(nodeId, "not found"))]
    ELSE IF nodeId \notin DOMAIN process.phases
    THEN [st EXCEPT !.errors = Append(@, ExecutionError(nodeId, "TypeError")),
                    !.activeExecutions = @ \cup {nodeId}]
    ELSE IF sync = "throw"
    THEN [st EXCEPT !.calls[nodeId] = Append(@, input),
                    !.errors = Append(@, ExecutionError(nodeId, "phase")),
                    !.activeExecutions = @ \cup {nodeId}]
    ELSE [st EXCEPT !.calls[nodeId] = Append(@, input),
                    !.pending = MapSet(@, nodeId, input),
                    !.activeExecutions = @ \cup {nodeId}]

\* executeNodeRecursive(nodeId, input, state) up to its first suspension: the two
\* memoization checks, then the call of phase.execute.  sync is what that call does:
\* "throw" when it throws before returning a promise, "promise" otherwise.
executeNodeRecursive(nodeId, input, st, phaseRes, sync) ==
    IF nodeId \in DOMAIN phaseRes THEN st
    ELSE IF nodeId \in st.activeExecutions THEN st
    ELSE IF ~hasPhase(process, nodeId)
    THEN [st EXCEPT !.errors = Append(@, ExecutionError(nodeId, "not found"))]
    ELSE IF nodeId \notin DOMAIN process.phases
    THEN \* node is an inherited function: reading node.phase.execute is a TypeError
         [st EXCEPT !.errors = Append(@, ExecutionError(nodeId, "TypeError")),
                    !.activeExecutions = @ \cup {nodeId}]
    ELSE IF sync = "throw"
    THEN \* catch, finally (delete), and only then activeExecutions.set
         [st EXCEPT !.calls[nodeId] = Append(@, input),
                    !.errors = Append(@, ExecutionError(nodeId, "phase")),
                    !.activeExecutions = @ \cup {nodeId}]
    ELSE [st EXCEPT !.calls[nodeId] = Append(@, input),
                    !.pending = MapSet(@, nodeId, input),
                    !.activeExecutions = @ \cup {nodeId}]

\* fanOut that hands every transform the context the run held before the loop
RECURSIVE fanOutStaleContext(_, _, _, _, _, _, _, _)
fanOutStaleContext(nodeId, output, conns, i, st, phaseRes, tchoice, pchoice) ==
    IF i > Len(conns) THEN st
    ELSE
      LET connection == conns[i]
          target == connection.targetPhaseNodeId
      IN
      IF connection.transform # NoTransform
      THEN
        LET logged == [st EXCEPT !.transformCalls = Append(@,
                          [from |-> nodeId, index |-> i, name |-> connection.transform,
                           output |-> output, context |-> context,
                           outcome |-> tchoice[i]])]
        IN
        IF tchoice[i] = "throw"
        THEN fanOutStaleContext(nodeId, output, conns, i + 1,
                    [logged EXCEPT !.errors = Append(@, ExecutionError(target, "transform"))],
                    phaseRes, tchoice, pchoice)
        ELSE
          LET r == transform(connection.transform, output, context)
              stored == IF engine = "phase" THEN [logged EXCEPT !.context = r[2]] ELSE logged
          IN fanOutStaleContext(nodeId, output, conns, i + 1,
                    executeNodeRecursive(target, r[1], stored, phaseRes, pchoice[i]),
                    phaseRes, tchoice, pchoice)
      ELSE fanOutStaleContext(nodeId, output, conns, i + 1,
                  executeNodeRecursive(target, output, st, phaseRes, pchoice[i]),
                  phaseRes, tchoice, pchoice)

\* fanOut that looks the target up in the tables of the run before it evaluates the
\* transform, and passes over a connection whose target is completed or in flight
RECURSIVE fanOutSkipCached(_, _, _, _, _, _, _, _)
fanOutSkipCached(nodeId, output, conns, i, st, phaseRes, tchoice, pchoice) ==
    IF i > Len(conns) THEN st
    ELSE
      LET connection == conns[i]
          target == connection.targetPhaseNodeId
      IN
      IF target \in DOMAIN phaseRes \/ target \in st.activeExecutions
      THEN fanOutSkipCached(nodeId, output, conns, i + 1, st, phaseRes, tchoice, pchoice)
      ELSE IF connection.transform # NoTransform
      THEN
        LET logged == [st EXCEPT !.transformCalls = Append(@,
                          [from |-> nodeId, index |-> i, name |-> connection.transform,
                           output |-> output, context |-> st.context,
                           outcome |-> tchoice[i]])]
        IN
        IF tchoice[i] = "throw"
        THEN fanOutSkipCached(nodeId, output, conns, i + 1,
                    [logged EXCEPT !.errors = Append(@, ExecutionError(target, "transform"))],
                    phaseRes, tchoice, pchoice)
        ELSE
          LET r == transform(connection.transform, output, st.context)
              stored == IF engine = "phase" THEN [logged EXCEPT !.context = r[2]] ELSE logged
          IN fanOutSkipCached(nodeId, output, conns, i + 1,
                    executeNodeRecursive(target, r[1], stored, phaseRes, pchoice[i]),
                    phaseRes, tchoice, pchoice)
      ELSE fanOutSkipCached(nodeId, output, conns, i + 1,
                  executeNodeRecursive(target, output, st, phaseRes, pchoice[i]),
                  phaseRes, tchoice, pchoice)

\* fanOut that dispatches the target with the output when the transform throws
RECURSIVE fanOutDispatch(_, _, _, _, _, _, _, _)
fanOutDispatch(nodeId, output, conns, i, st, phaseRes, tchoice, pchoice) ==
    IF i > Len(conns) THEN st
    ELSE
      LET connection == conns[i]
          target == connection.targetPhaseNodeId
      IN
      IF connection.transform # NoTransform
      THEN
        LET logged == [st EXCEPT !.transformCalls = Append(@,
                          [from |-> nodeId, index |-> i, name |-> connection.transform,
                           output |-> output, context |-> st.context,
                           outcome |-> tchoice[i]])]
        IN
        IF tchoice[i] = "throw"
        THEN fanOutDispatch(nodeId, output, conns, i + 1,
                    executeNodeRecursive(target, output,
                        [logged EXCEPT !.errors = Append(@, ExecutionError(target, "transform"))],
                        phaseRes, pchoice[i]),
                    phaseRes, tchoice, pchoice)
        ELSE
          LET r == transform(connection.transform, output, st.context)
              stored == IF engine = "phase" THEN [logged EXCEPT !.context = r[2]] ELSE logged
          IN fanOutDispatch(nodeId, output, conns, i + 1,
                    executeNodeRecursive(target, r[1], stored, phaseRes, pchoice[i]),
                    phaseRes, tchoice, pchoice)
      ELSE fanOutDispatch(nodeId, output, conns, i + 1,
                  executeNodeRecursive(target, output, st, phaseRes, pchoice[i]),
                  phaseRes, tchoice, pchoice)

\* fanOut that leaves the loop at the first transform that throws
RECURSIVE fanOutBreak(_, _, _, _, _, _, _, _)
fanOutBreak(nodeId, output, conns, i, st, phaseRes, tchoice, pchoice) ==
    IF i > Len(conns) THEN st
    ELSE
      LET connection == conns[i]
          target == connection.targetPhaseNodeId
      IN
      IF connection.transform # NoTransform
      THEN
        LET logged == [st EXCEPT !.transformCalls = Append(@,
                          [from |-> nodeId, index |-> i, name |-> connection.transform,
                           output |-> output, context |-> st.context,
                           outcome |-> tchoice[i]])]
        IN
        IF tchoice[i] = "throw"
        THEN [logged EXCEPT !.errors = Append(@, ExecutionError(target, "transform"))]
        ELSE
          LET r == transform(connection.transform, output, st.context)
              stored == IF engine = "phase" THEN [logged EXCEPT !.context = r[2]] ELSE logged
          IN fanOutBreak(nodeId, output, conns, i + 1,
                    executeNodeRecursive(target, r[1], stored, phaseRes, pchoice[i]),
                    phaseRes, tchoice, pchoice)
      ELSE fanOutBreak(nodeId, output, conns, i + 1,
                  executeNodeRecursive(target, output, st, phaseRes, pchoice[i]),
                  phaseRes, tchoice, pchoice)

\* The loop over node.next of a node that completed with output, from connection i on.
\* tchoice[j] is what the transform of connection j does ("return" or "throw"),
\* pchoice[j] what the call of the target's phase does.
RECURSIVE fanOut(_, _, _, _, _, _, _, _)
fanOut(nodeId, output, conns, i, st, phaseRes, tchoice, pchoice) ==
    IF i > Len(conns) THEN st
    ELSE
      LET connection == conns[i]
          target == connection.targetPhaseNodeId
      IN
      IF connection.transform # NoTransform
      THEN
        LET logged == [st EXCEPT !.transformCalls = Append(@,
                          [from |-> nodeId, index |-> i, name |-> connection.transform,
                           output |-> output, context |-> st.context,
                           outcome |-> tchoice[i]])]
        IN
        IF tchoice[i] = "throw"
        THEN fanOut(nodeId, output, conns, i + 1,
                    [logged EXCEPT !.errors = Append(@, ExecutionError(target, "transform"))],
                    phaseRes, tchoice, pchoice)
        ELSE
          LET r == transform(connection.transform, output, st.context)
              stored == IF engine = "phase" THEN [logged EXCEPT !.context = r[2]] ELSE logged
          IN fanOut(nodeId, output, conns, i + 1,
                    executeNodeRecursive(target, r[1], stored, phaseRes, pchoice[i]),
                    phaseRes, tchoice, pchoice)
      ELSE fanOut(nodeId, output, conns, i + 1,
                  executeNodeRecursive(target, output, st, phaseRes, pchoice[i]),
                  phaseRes, tchoice, pchoice)

\* the condition under which a completed node dispatches its connections
hasConnections(node) ==
    IF engine = "phase"
    THEN /\ node.next.kind = "connections"
         /\ Len(node.next.conns) > 0
         /\ \A j \in 1..Len(node.next.conns) : isConnection(node.next.conns[j])
    ELSE Len(node.next.conns) > 0

\* settle the promise executeProcess awaits, if nodeId is the execution it awaits
Settle(nodeId, outcome) ==
    startPromise' = IF nodeId = process.startPhaseId /\ startPromise = "pending"
                    THEN outcome ELSE startPromise

\* the finally block of a node whose phase had returned a promise
Finally(st, nodeId) ==
    /\ activeExecutions' = st.activeExecutions \ {nodeId}
    /\ pending' = MapDelete(st.pending, nodeId)

\* CompleteFanOut that awaits the executions it has triggered (Promise.all): the handle
\* of the node fails when one of them fails at once
CompleteFanOutAwaiting(nodeId) ==
    /\ UNCHANGED <<warnings, otherCall>>
    /\ nodeId \in DOMAIN pending
    /\ hasConnections(process.phases[nodeId])
    /\ LET output == execute(nodeId, pending[nodeId])
           conns == process.phases[nodeId].next.conns
           phaseRes == MapSet(phaseResults, nodeId, output)
       IN \E tchoice \in [1..Len(conns) -> {"return", "throw"}],
             pchoice \in [1..Len(conns) -> {"promise", "throw"}] :
            LET st == fanOut(nodeId, output, conns, 1, RunState, phaseRes, tchoice, pchoice)
            IN /\ phaseResults' = phaseRes
               /\ context' = st.context
               /\ errors' = st.errors
               /\ calls' = st.calls
               /\ transformCalls' = st.transformCalls
               /\ Finally(st, nodeId)
               /\ Settle(nodeId, IF Len(st.errors) > Len(errors) THEN "rejected"
                                 ELSE "fulfilled")
    /\ UNCHANGED <<engine, process, initialInput, pc, thrown, results, terminateCalls, returned>>

\* The phase of nodeId resolves and the node has connections: cache the output and fan out.
CompleteFanOut(nodeId) ==
    /\ UNCHANGED <<warnings, otherCall>>
    /\ nodeId \in DOMAIN pending
    /\ hasConnections(process.phases[nodeId])
    /\ LET output == execute(nodeId, pending[nodeId])
           conns == process.phases[nodeId].next.conns
           phaseRes == MapSet(phaseResults, nodeId, output)
       IN \E tchoice \in [1..Len(conns) -> {"return", "throw"}],
             pchoice \in [1..Len(conns) -> {"promise", "throw"}] :
            LET st == fanOut(nodeId, output, conns, 1, RunState, phaseRes, tchoice, pchoice)
            IN /\ phaseResults' = phaseRes
               /\ context' = st.context
               /\ errors' = st.errors
               /\ calls' = st.calls
               /\ transformCalls' = st.transformCalls
               /\ Finally(st, nodeId)
    /\ Settle(nodeId, "fulfilled")
    /\ UNCHANGED <<engine, process, initialInput, pc, thrown, results, terminateCalls, returned>>

\* CompleteTermination that stores the output under the id of the node
CompleteTerminationUnderNode(nodeId) ==
    /\ UNCHANGED <<warnings, otherCall>>
    /\ engine = "phase"
    /\ nodeId \in DOMAIN pending
    /\ ~hasConnections(process.phases[nodeId])
    /\ isTermination(process.phases[nodeId].next)
    /\ LET output == execute(nodeId, pending[nodeId])
           termination == process.phases[nodeId].next
       IN /\ phaseResults' = MapSet(phaseResults, nodeId, output)
          /\ terminateCalls' = Append(terminateCalls,
                [nodeId |-> nodeId, id |-> termination.id, output |-> output,
                 context |-> context, returns |-> terminate(output, context)])
          /\ \/ \* terminate returns; its return value is dropped
                /\ results' = MapSet(results, nodeId, output)
                /\ errors' = errors
                /\ Settle(nodeId, "fulfilled")
             \/ \* terminate throws: the catch block of the node takes it
                /\ results' = results
                /\ errors' = Append(errors, ExecutionError(nodeId, "terminate"))
                /\ Settle(nodeId, "rejected")
    /\ Finally(RunState, nodeId)
    /\ UNCHANGED <<engine, process, initialInput, context, pc, thrown, calls,
                   transformCalls, returned>>

\* The phase of nodeId resolves and node.next is a Termination.
CompleteTermination(nodeId) ==
    /\ UNCHANGED <<warnings, otherCall>>
    /\ engine = "phase"
    /\ nodeId \in DOMAIN pending
    /\ ~hasConnections(process.phases[nodeId])
    /\ isTermination(process.phases[nodeId].next)
    /\ LET output == execute(nodeId, pending[nodeId])
           termination == process.phases[nodeId].next
       IN /\ phaseResults' = MapSet(phaseResults, nodeId, output)
          /\ terminateCalls' = Append(terminateCalls,
                [nodeId |-> nodeId, id |-> termination.id, output |-> output,
                 context |-> context, returns |-> terminate(output, context)])
          /\ \/ \* terminate returns; its return value is dropped
                /\ results' = MapSet(results, termination.id, output)
                /\ errors' = errors
                /\ Settle(nodeId, "fulfilled")
             \/ \* terminate throws: the catch block of the node takes it
                /\ results' = results
                /\ errors' = Append(errors, ExecutionError(nodeId, "terminate"))
                /\ Settle(nodeId, "rejected")
    /\ Finally(RunState, nodeId)
    /\ UNCHANGED <<engine, process, initialInput, context, pc, thrown, calls,
                   transformCalls, returned>>

\* CompleteLeaf that does not record the output in the result set
CompleteLeafUnrecorded(nodeId) ==
    /\ UNCHANGED <<warnings, otherCall>>
    /\ nodeId \in DOMAIN pending
    /\ ~hasConnections(process.phases[nodeId])
    /\ engine = "phase" => ~isTermination(process.phases[nodeId].next)
    /\ phaseResults' = MapSet(phaseResults, nodeId, execute(nodeId, pending[nodeId]))
    /\ Finally(RunState, nodeId)
    /\ Settle(nodeId, "fulfilled")
    /\ UNCHANGED <<engine, process, initialInput, context, pc, thrown, errors, calls,
                   transformCalls, terminateCalls, returned, results>>

\* The phase of nodeId resolves and the node has neither connections nor a Termination.
CompleteLeaf(nodeId) ==
    /\ UNCHANGED <<warnings, otherCall>>
    /\ nodeId \in DOMAIN pending
    /\ ~hasConnections(process.phases[nodeId])
    /\ engine = "phase" => ~isTermination(process.phases[nodeId].next)
    /\ LET output == execute(nodeId, pending[nodeId])
       IN /\ phaseResults' = MapSet(phaseResults, nodeId, output)
          /\ results' = IF engine = "phase" THEN MapSet(results, nodeId, output) ELSE results
    /\ Finally(RunState, nodeId)
    /\ Settle(nodeId, "fulfilled")
    /\ UNCHANGED <<engine, process, initialInput, context, pc, thrown, errors, calls,
                   transformCalls, terminateCalls, returned>>

\* The promise of the phase of nodeId rejects.
PhaseReject(nodeId) ==
    /\ UNCHANGED <<warnings, otherCall>>
    /\ nodeId \in DOMAIN pending
    /\ errors' = Append(errors, ExecutionError(nodeId, "phase"))
    /\ Finally(RunState, nodeId)
    /\ Settle(nodeId, "rejected")
    /\ UNCHANGED <<engine, process, initialInput, context, pc, thrown, phaseResults,
                   results, calls, transformCalls, terminateCalls, returned>>

----------------------------------------------------------------------------
(* gatherResults and executeProcess *)

isLeafNode(node) == Len(node.next.conns) = 0

\* gatherResults that runs the implicit-leaf loop whether or not an end phase is declared
gatherResultsAlwaysLeaves(proc, phaseRes) ==
    LET ends == {k \in DOMAIN proc.phases : proc.phases[k].isEndPhase}
        leaves == {k \in DOMAIN proc.phases : isLeafNode(proc.phases[k])}
    IN [k \in (ends \cup leaves) \cap DOMAIN phaseRes |-> phaseRes[k]]

\* gatherResults that takes a declared end phase only when it is a leaf
gatherResultsEndLeaves(proc, phaseRes) ==
    LET ends == {k \in DOMAIN proc.phases : proc.phases[k].isEndPhase}
        leaves == {k \in DOMAIN proc.phases : isLeafNode(proc.phases[k])}
    IN IF ends # {}
       THEN [k \in ends \cap leaves \cap DOMAIN phaseRes |-> phaseRes[k]]
       ELSE [k \in leaves \cap DOMAIN phaseRes |-> phaseRes[k]]

\* gatherResults(state): the explicit-end policy, else the implicit-leaf policy
gatherResults(proc, phaseRes) ==
    LET ends == {k \in DOMAIN proc.phases : proc.phases[k].isEndPhase}
        leaves == {k \in DOMAIN proc.phases : isLeafNode(proc.phases[k])}
        hasExplicitEndPhases == ends # {}
    IN IF hasExplicitEndPhases
       THEN [k \in ends \cap DOMAIN phaseRes |-> phaseRes[k]]
       ELSE [k \in leaves \cap DOMAIN phaseRes |-> phaseRes[k]]

\* the warning that carries the error list
ErrorWarning(errs) == [warning |-> "Process execution completed with errors:", about |-> errs]

\* the warnings gatherResults writes: one for each declared end phase that has neither
\* a completed result nor an error, then the error list if it is not empty
gatherWarnings(proc, phaseRes, errs) ==
    LET silent(k) == /\ proc.phases[k].isEndPhase
                     /\ k \notin DOMAIN phaseRes
                     /\ \A i \in 1..Len(errs) : errs[i].nodeId # k
        ends == SelectSeq(phaseIds(proc), silent)
    IN [i \in 1..Len(ends) |-> [warning |-> "End phase did not execute", about |-> <<ends[i]>>]]
       \o (IF errs # <<>> THEN <<ErrorWarning(errs)>> ELSE <<>>)

\* what validateProcess(processInstance) comes to in executeProcess
validation ==
    IF engine = "phase" THEN validateProcess(process) ELSE validateProcessArray(process)

validationErrors == validation.errors

\* executeProcess on a definition that does not validate: it rejects.
ExecuteProcessReject ==
    /\ UNCHANGED <<warnings, otherCall>>
    /\ pc = "idle"
    /\ ~(/\ ~validation.threw
         /\ validationErrors = <<>>
         /\ hasPhase(process, process.startPhaseId))
    /\ pc' = "rejected"
    /\ thrown' = IF validation.threw
                 THEN [message |-> "TypeError", defects |-> <<>>]
                 ELSE IF validationErrors # <<>>
                 THEN [message |-> "Invalid process definition:", defects |-> validationErrors]
                 ELSE [message |-> "Start phase ID not found in process phases.",
                       defects |-> <<>>]
    /\ UNCHANGED <<engine, process, initialInput, context, phaseResults, results,
                   activeExecutions, errors, pending, startPromise, calls, transformCalls,
                   terminateCalls, returned>>

\* executeProcess that starts the run without looking at the validation errors
ExecuteProcessStartUnvalidated ==
    /\ UNCHANGED <<warnings, otherCall>>
    /\ pc = "idle"
    /\ hasPhase(process, process.startPhaseId)
    /\ \E sync \in {"promise", "throw"} :
         LET st == executeNodeRecursive(process.startPhaseId, initialInput, RunState,
                                        phaseResults, sync)
         IN /\ errors' = st.errors
            /\ activeExecutions' = st.activeExecutions
            /\ pending' = st.pending
            /\ calls' = st.calls
            /\ startPromise' = IF process.startPhaseId \in DOMAIN st.pending
                               THEN "pending" ELSE "rejected"
    /\ pc' = "running"
    /\ UNCHANGED <<engine, process, initialInput, context, thrown, phaseResults, results,
                   transformCalls, terminateCalls, returned>>

\* executeProcess on a definition that validates, up to its await of the start node.
ExecuteProcessStart ==
    /\ UNCHANGED <<warnings, otherCall>>
    /\ pc = "idle"
    /\ ~validation.threw
    /\ validationErrors = <<>>
    /\ hasPhase(process, process.startPhaseId)
    /\ \E sync \in {"promise", "throw"} :
         LET st == executeNodeRecursive(process.startPhaseId, initialInput, RunState,
                                        phaseResults, sync)
         IN /\ errors' = st.errors
            /\ activeExecutions' = st.activeExecutions
            /\ pending' = st.pending
            /\ calls' = st.calls
            /\ startPromise' = IF process.startPhaseId \in DOMAIN st.pending
                               THEN "pending" ELSE "rejected"
    /\ pc' = "running"
    /\ UNCHANGED <<engine, process, initialInput, context, thrown, phaseResults, results,
                   transformCalls, terminateCalls, returned>>

\* executeProcess that lets a rejection of the start node escape instead of catching it
ReturnProcessRethrow ==
    /\ warnings' = IF engine = "phase" THEN warnings
                   ELSE warnings \o gatherWarnings(process, phaseResults, errors)
    /\ UNCHANGED otherCall
    /\ pc = "running"
    /\ startPromise \in {"fulfilled", "rejected"}
    /\ pc' = IF startPromise = "rejected" THEN "rejected" ELSE "resolved"
    /\ returned' = IF startPromise = "rejected" THEN returned
                   ELSE IF engine = "phase"
                   THEN <<results, phaseResults, context>>
                   ELSE gatherResults(process, phaseResults)
    /\ UNCHANGED <<engine, process, initialInput, context, thrown, phaseResults, results,
                   activeExecutions, errors, pending, startPromise, calls, transformCalls,
                   terminateCalls>>

\* The promise of the start node has settled: the await of executeProcess continues
\* (a rejection is caught and logged) and the call returns.
ReturnProcess ==
    /\ warnings' = IF engine = "phase" THEN warnings
                   ELSE warnings \o gatherWarnings(process, phaseResults, errors)
    /\ UNCHANGED otherCall
    /\ pc = "running"
    /\ startPromise \in {"fulfilled", "rejected"}
    /\ pc' = "resolved"
    /\ returned' = IF engine = "phase"
                   THEN <<results, phaseResults, context>>
                   ELSE gatherResults(process, phaseResults)
    /\ UNCHANGED <<engine, process, initialInput, context, thrown, phaseResults, results,
                   activeExecutions, errors, pending, startPromise, calls, transformCalls,
                   terminateCalls>>

Next ==
    \/ ExecuteProcessReject
    \/ ExecuteProcessStart
    \/ ReturnProcess
    \/ \E nodeId \in Ids : CompleteFanOut(nodeId)
    \/ \E nodeId \in Ids : CompleteTermination(nodeId)
    \/ \E nodeId \in Ids : CompleteLeaf(nodeId)
    \/ \E nodeId \in Ids : PhaseReject(nodeId)

Spec == Init /\ [][Next]_vars

\* the promise of the phase of nodeId settles, one way or the other
NodeSettles(nodeId) ==
    \/ CompleteFanOut(nodeId)
    \/ CompleteTermination(nodeId)
    \/ CompleteLeaf(nodeId)
    \/ PhaseReject(nodeId)

\* The event loop runs every continuation that is ready, and every promise a phase
\* returned settles at some time.
FairSpec ==
    /\ Spec
    /\ WF_vars(ReturnProcess)
    /\ \A nodeId \in Ids : WF_vars(NodeSettles(nodeId))

----------------------------------------------------------------------------
(* The shape predicates as functions of their input *)

NonObjects == {"null", "undefined", "primitive"}

\* next: undefined
Absent == [Missing EXCEPT !.type = "undefined"]

\* an object without any of the probed fields
EmptyObject == Termination("undefined", "none")

PhaseValues ==
    {PhaseValue("object", name, exec) :
        name \in {"string", "undefined", "number"},
        exec \in {"function", "undefined", "string"}}
    \cup {PhaseValue(type, "undefined", "undefined") : type \in NonObjects}

NextValues ==
    {Connections(<<>>), Connections(<<To(P(1))>>), Termination("end", "fn"),
     Termination("end", "none"), EmptyObject, Missing, Absent, Primitive}

PhaseNodeValues ==
    {PhaseNodeValue("object", id, phase, next) :
        id \in {"string", "undefined", "number"}, phase \in PhaseValues, next \in NextValues}
    \cup {PhaseNodeValue(type, "undefined", PhaseValue("undefined", "undefined", "undefined"),
                         Absent) : type \in NonObjects}

ProcessValues ==
    {ProcessValue("object", name, ctx, phases, start) :
        name \in {"string", "undefined", "number"},
        ctx \in {"object", "null", "undefined", "number"},
        phases \in {"object", "null", "undefined", "number"},
        start \in {"string", "undefined", "number"}}
    \cup {ProcessValue(type, "undefined", "undefined", "undefined", "undefined") :
             type \in NonObjects}

\* the values met where a Connection or a Termination is expected
TransitionValues ==
    {[Connection(target, tr) EXCEPT !.id = id, !.terminate = term] :
        target \in {"undefined", P(1), "", NotAString},
        tr \in {NoTransform, "tA", "nonfn"},
        id \in {"undefined", "end", NotAString},
        term \in {"fn", "none", "nonfn"}}
    \cup {NullEntry, PrimitiveEntry, [Absent EXCEPT !.kind = "connection"]}
    \cup {Connections(<<>>), Connections(<<To(P(1))>>)}

\* a value, and the shape it is to be tested for
ShapeInputs ==
    {[shape |-> "Phase", value |-> v] : v \in PhaseValues}
    \cup {[shape |-> "PhaseNode", value |-> v] : v \in PhaseNodeValues}
    \cup {[shape |-> "Process", value |-> v] : v \in ProcessValues}
    \cup {[shape |-> "Transition", value |-> v] : v \in TransitionValues}

\* process holds the value handed to the predicate, returned what the predicate answers
ShapeInit ==
    /\ engine = "phase"
    /\ process \in ShapeInputs
    /\ initialInput \in InitialInputs
    /\ context = <<>>
    /\ pc = "idle"
    /\ thrown = <<>>
    /\ phaseResults = EmptyMap
    /\ results = EmptyMap
    /\ activeExecutions = {}
    /\ errors = <<>>
    /\ pending = EmptyMap
    /\ startPromise = "none"
    /\ calls = [k \in Ids |-> <<>>]
    /\ transformCalls = <<>>
    /\ terminateCalls = <<>>
    /\ returned = <<>>
    /\ warnings = <<>>
    /\ otherCall = NewCall("B")

\* the call of a predicate on a value that is to be tested for shape
Answer(predicate, shape, answer) ==
    /\ pc = "idle"
    /\ process.shape = shape
    /\ returned' = [predicate |-> predicate, value |-> answer]
    /\ pc' = "resolved"
    /\ UNCHANGED <<engine, process, initialInput, context, thrown, phaseResults, results,
                   activeExecutions, errors, pending, startPromise, calls, transformCalls,
                   terminateCalls, warnings, otherCall>>

IsPhase == Answer("isPhase", "Phase", isPhase(process.value))

IsPhaseNode == Answer("isPhaseNode", "PhaseNode", isPhaseNode(process.value))

IsProcess == Answer("isProcess", "Process", isProcess(process.value))

IsConnection == Answer("isConnection", "Transition", isConnection(process.value))

IsTermination == Answer("isTermination", "Transition", isTermination(process.value))

ShapeNext == IsPhase \/ IsPhaseNode \/ IsProcess \/ IsConnection \/ IsTermination

ShapeSpec == ShapeInit /\ [][ShapeNext]_vars

----------------------------------------------------------------------------
(* Two interleaved calls of executeProcess on one Process value *)

\* the definitions two calls are made on
TwoCallShapes == {TransformTermination, Cycle("tA"), Diamond, DanglingStart}

TwoCallInit ==
    /\ Init
    /\ engine = "phase"
    /\ process \in TwoCallShapes

\* the state of the call whose steps are being taken
ThisCall ==
    [call |-> IF otherCall.call = "B" THEN "A" ELSE "B", pc |-> pc, thrown |-> thrown,
     phaseResults |-> phaseResults, results |-> results,
     activeExecutions |-> activeExecutions, errors |-> errors, pending |-> pending,
     startPromise |-> startPromise, calls |-> calls, transformCalls |-> transformCalls,
     terminateCalls |-> terminateCalls, returned |-> returned]

\* Switch with the tables kept in one place for both calls
SwitchSharedTables ==
    /\ otherCall' = ThisCall
    /\ pc' = otherCall.pc
    /\ thrown' = otherCall.thrown
    /\ results' = otherCall.results
    /\ startPromise' = otherCall.startPromise
    /\ calls' = otherCall.calls
    /\ transformCalls' = otherCall.transformCalls
    /\ terminateCalls' = otherCall.terminateCalls
    /\ returned' = otherCall.returned
    /\ UNCHANGED <<engine, process, initialInput, context, warnings, phaseResults,
                   activeExecutions, errors, pending>>

\* The event loop turns to the other call: the steps that follow are taken on the state
\* that call created for itself.  The Process value, and with it process.context, is the
\* same for both calls.
Switch ==
    /\ otherCall' = ThisCall
    /\ pc' = otherCall.pc
    /\ thrown' = otherCall.thrown
    /\ phaseResults' = otherCall.phaseResults
    /\ results' = otherCall.results
    /\ activeExecutions' = otherCall.activeExecutions
    /\ errors' = otherCall.errors
    /\ pending' = otherCall.pending
    /\ startPromise' = otherCall.startPromise
    /\ calls' = otherCall.calls
    /\ transformCalls' = otherCall.transformCalls
    /\ terminateCalls' = otherCall.terminateCalls
    /\ returned' = otherCall.returned
    /\ UNCHANGED <<engine, process, initialInput, context, warnings>>

TwoCallNext == Next \/ Switch

TwoCallSpec == TwoCallInit /\ [][TwoCallNext]_vars

----------------------------------------------------------------------------
(* Properties *)

\* the node ids a path of connections leads to from the start node
RECURSIVE ReachableFrom(_, _)
ReachableFrom(seen, k) ==
    LET succ == UNION {{process.phases[n].next.conns[j].targetPhaseNodeId :
                           j \in 1..Len(process.phases[n].next.conns)} : n \in seen}
        more == (seen \cup succ) \cap DOMAIN process.phases
    IN IF k = 0 \/ more = seen THEN seen ELSE ReachableFrom(more, k - 1)

Reachable == ReachableFrom({process.startPhaseId} \cap DOMAIN process.phases, NumNodes)

Started == pc \in {"running", "resolved"}

\* no phase promise is pending: every execution that was triggered has settled
Quiescent == Started /\ pending = EmptyMap

Failed(kinds) == {i \in 1..Len(errors) : errors[i].error \in kinds}

\* the result set executeProcess resolved with
ResultSet == IF engine = "phase" THEN returned[1] ELSE returned

\* C1: in one run the phase of each node is invoked at most once, whatever the graph
\* and whatever phases or transforms fail.
C1_AtMostOnce == \A nodeId \in Ids : Len(calls[nodeId]) <= 1

\* C2: when no phase and no transform fails, every node reachable from startPhaseId is
\* invoked exactly once in the run (at most once while the run goes on, exactly once
\* when every triggered execution has settled), also on a cycle back to the start; a
\* node that is not reachable from the start is never invoked.
C2_ExactlyOnce ==
    \A nodeId \in Ids :
        /\ nodeId \notin Reachable => calls[nodeId] = <<>>
        /\ Failed({"phase", "transform"}) = {} =>
             /\ Len(calls[nodeId]) <= 1
             /\ (Quiescent /\ nodeId \in Reachable) => Len(calls[nodeId]) = 1

\* the cycle p1 -> p2 -> {p1, p3} has run to its end without a failure
C2_Witness ==
    /\ \E ends \in SUBSET Ids : process = WithEnds(Cycle(NoTransform), ends)
    /\ Quiescent
    /\ errors = <<>>
    /\ \A nodeId \in Ids : Len(calls[nodeId]) = 1
    /\ P(1) \in DOMAIN phaseResults

\* C3: if validateProcess returns a non-empty defect list, executeProcess rejects with
\* 'Invalid process definition:' followed by the defects; no phase is invoked, no
\* transform (and no terminate callback) is evaluated and the context is not changed.
C3_InvalidRejects ==
    validationErrors # <<>> =>
        /\ pc \in {"idle", "rejected"}
        /\ pc = "rejected" =>
              thrown = [message |-> "Invalid process definition:",
                        defects |-> validationErrors]
        /\ \A nodeId \in Ids : calls[nodeId] = <<>>
        /\ transformCalls = <<>>
        /\ terminateCalls = <<>>
        /\ context = process.context
        /\ phaseResults = EmptyMap

\* a definition with a dangling connection target has been rejected
C3_Witness ==
    /\ pc = "rejected"
    /\ \E i \in 1..Len(validationErrors) :
          validationErrors[i].defect = "connection to non-existent targetPhaseNodeId"
    /\ thrown.defects = validationErrors

\* C4: executeProcess returns only after every execution triggered from the start node
\* has completed or failed: once the call has returned no node is in flight, and the
\* returned result set holds the entry of every terminal node that completes in the run.
C4_ReturnsAfterAll ==
    pc = "resolved" =>
        /\ pending = EmptyMap
        /\ ResultSet = IF engine = "phase" THEN results
                       ELSE gatherResults(process, phaseResults)

\* the phase of the start node has failed
StartPhaseFailed ==
    \E i \in 1..Len(errors) :
        errors[i] = ExecutionError(process.startPhaseId, "phase")

\* C5: executeProcess rejects only when validation fails (validateProcess returns
\* defects, or throws); a run of a process that
\* validates resolves with a result set, also when the phase of the start node fails,
\* and then the result set is empty and no successor of the start node is invoked.
C5_ResolvesUnlessInvalid ==
    /\ [](pc = "rejected" => (validation.threw \/ validationErrors # <<>>))
    /\ [](StartPhaseFailed =>
            /\ \A nodeId \in Ids \ {process.startPhaseId} : calls[nodeId] = <<>>
            /\ pc = "resolved" => ResultSet = EmptyMap)
    /\ (pc = "running" ~> pc = "resolved")

\* the call has resolved with the empty result set after the start node's phase failed
C5_Witness ==
    /\ pc = "resolved"
    /\ StartPhaseFailed
    /\ ResultSet = EmptyMap
    /\ process.phases[process.startPhaseId].next.conns # <<>>

\* C6 as stated: a failure of the start node's phase escapes executeProcess as a
\* rejection (the call never resolves after it), while no other failure makes the
\* call fail.
C6_StartFailureEscapes ==
    /\ pc = "resolved" => ~StartPhaseFailed
    /\ (pc = "rejected" /\ validationErrors = <<>> /\ ~validation.threw) => StartPhaseFailed

\* C6, amended: no failure of a phase escapes executeProcess, that of the start node
\* included: a run that recorded an error is never a rejected call, and once the
\* start node's phase has failed the call is running or has resolved.
C6_NoFailureEscapes ==
    /\ errors # <<>> => pc # "rejected"
    /\ StartPhaseFailed => (pc \in {"running", "resolved"} /\ thrown = <<>>)

\* the start node's phase failed, the rejection was caught and the call resolved
C6_Witness ==
    /\ StartPhaseFailed
    /\ startPromise = "rejected"
    /\ pc = "resolved"
    /\ thrown = <<>>

\* the connections of node nodeId
ConnectionsOf(nodeId) == process.phases[nodeId].next.conns

\* the input connection j of node nodeId hands to its target, the node having completed
DeliveredInput(nodeId, j) ==
    LET connection == ConnectionsOf(nodeId)[j]
    IN IF connection.transform = NoTransform THEN phaseResults[nodeId]
       ELSE transform(connection.transform, phaseResults[nodeId], <<>>)[1]

TransformFailed(target) ==
    \E i \in 1..Len(errors) : errors[i] = ExecutionError(target, "transform")

\* the edges (node, connection index) that lead to target
EdgesInto(target) ==
    {e \in (DOMAIN process.phases) \X (1..NumNodes) :
        /\ e[2] <= Len(ConnectionsOf(e[1]))
        /\ ConnectionsOf(e[1])[e[2]].targetPhaseNodeId = target}

\* every input a phase was called with is initialInput (the start node) or what a
\* connection of a completed node delivers: its output, or the input component of its
\* transform
C7_Provenance ==
    \A target \in Ids : \A i \in 1..Len(calls[target]) :
        \/ target = process.startPhaseId /\ i = 1 /\ calls[target][i] = initialInput
        \/ \E e \in EdgesInto(target) :
              /\ e[1] \in DOMAIN phaseResults
              /\ calls[target][i] = DeliveredInput(e[1], e[2])

\* every connection of a completed node has been dispatched, not only the first: its
\* target has been started unless the transform of the connection threw, and a target
\* that only this connection leads to was started with exactly the delivered input
C7_AllDispatched ==
    \A nodeId \in DOMAIN phaseResults :
        hasConnections(process.phases[nodeId]) =>
            \A j \in 1..Len(ConnectionsOf(nodeId)) :
                LET target == ConnectionsOf(nodeId)[j].targetPhaseNodeId
                    dispatched == \/ ConnectionsOf(nodeId)[j].transform = NoTransform
                                  \/ ~TransformFailed(target)
                IN (dispatched /\ target \in Ids) =>
                     /\ calls[target] # <<>>
                     /\ (EdgesInto(target) = {<<nodeId, j>>} /\ target # process.startPhaseId)
                           => calls[target] = <<DeliveredInput(nodeId, j)>>

\* the result set of the linear chain p1 -> ... -> pN when nothing failed
ChainResult ==
    LET RECURSIVE Through(_)
        Through(i) == IF i = 0 THEN initialInput ELSE execute(P(i), Through(i - 1))
    IN [k \in {P(NumNodes)} |-> Through(NumNodes)]

\* in the linear chain the result of a call in which nothing failed is exactly
\* {pN: PN(...P2(P1(initialInput)))}
C7_ChainResult ==
    (/\ pc = "resolved"
     /\ \E ends \in SUBSET {P(NumNodes)} : process = WithEnds(Chain(NoTransform), ends)
     /\ errors = <<>>)
    => ResultSet = ChainResult

\* C7: when a node completes with output o every one of its connections is dispatched;
\* a target reached without transform is started with exactly o, one reached through
\* transform t with the input component of t(o, context); the linear chain
\* P1 -> P2 -> P3 results in exactly {p3: P3(P2(P1(initialInput)))}.
C7_FanOutAndChain == C7_Provenance /\ C7_AllDispatched /\ C7_ChainResult

\* the nodes that declare isEndPhase: true
Ends == {k \in DOMAIN process.phases : process.phases[k].isEndPhase}

\* the nodes without outgoing connections
Leaves == {k \in DOMAIN process.phases : isLeafNode(process.phases[k])}

Terminating == {k \in DOMAIN process.phases : process.phases[k].next.kind = "termination"}

\* the step in which executeProcess returns
Returns == pc = "running" /\ pc' = "resolved"

Restrict(m, keys) == [k \in keys \cap DOMAIN m |-> m[k]]

C10_ImplicitLeaves ==
    [][(Returns /\ Ends = {}) => ResultSet' = Restrict(phaseResults, Leaves)]_vars

\* C10, amended: provided also that no node's next is a Termination.
C10_ImplicitLeavesNoTermination ==
    [][(Returns /\ Ends = {} /\ Terminating = {})
          => ResultSet' = Restrict(phaseResults, Leaves)]_vars

\* a call without declared ends returned both leaves of a fan-out and no entry for the
\* completed start node
C10_Witness ==
    /\ pc = "resolved"
    /\ Ends = {}
    /\ Terminating = {}
    /\ Cardinality(DOMAIN ResultSet) >= 2
    /\ DOMAIN ResultSet \subseteq Leaves
    /\ process.startPhaseId \in DOMAIN phaseResults \ DOMAIN ResultSet

----------------------------------------------------------------------------
(* Terminations *)

\* the node whose completion a step records
Completes(nodeId) == nodeId \notin DOMAIN phaseResults /\ nodeId \in DOMAIN phaseResults'

\* the last terminate evaluation after a step
LastTerminate == terminateCalls'[Len(terminateCalls')]

\* when a node whose next is a Termination with a callback completes with output o,
\* the callback is evaluated with (o, current context), and no more than once per node
C11_TerminateInvoked ==
    [][/\ \A nodeId \in Ids :
             (Completes(nodeId) /\ isTermination(process.phases[nodeId].next)) =>
                 /\ Len(terminateCalls') = Len(terminateCalls) + 1
                 /\ SubSeq(terminateCalls', 1, Len(terminateCalls)) = terminateCalls
                 /\ LastTerminate.nodeId = nodeId
                 /\ LastTerminate.id = process.phases[nodeId].next.id
                 /\ LastTerminate.output = phaseResults'[nodeId]
                 /\ LastTerminate.context = context
       /\ \A nodeId \in Ids :
             Cardinality({i \in 1..Len(terminateCalls') :
                             terminateCalls'[i].nodeId = nodeId}) <= 1]_vars

\* the value stored under the termination's id is what the callback returned
C11_StoresReturnValue ==
    [][\A nodeId \in Ids :
          (/\ Completes(nodeId)
           /\ isTermination(process.phases[nodeId].next)
           /\ errors' = errors)
          => /\ process.phases[nodeId].next.id \in DOMAIN results'
             /\ results'[process.phases[nodeId].next.id]
                  = terminate(phaseResults'[nodeId], context)]_vars

\* C11: when a node whose next is a Termination with a terminate callback completes
\* with output o, the callback is invoked exactly once with (o, current context) and the
\* value stored in the result set under the termination's id is the callback's return
\* value.
C11_TerminateResult == C11_TerminateInvoked /\ C11_StoresReturnValue

\* the node objects of the process definition
Nodes ==
    IF process.type = "object" /\ process.phasesType = "object"
    THEN {k \in DOMAIN process.phases : process.phases[k].type = "object"}
    ELSE {}

\* the nodes whose next is a Termination {id} without a terminate callback
TerminatingWithoutCallback ==
    {k \in Nodes : /\ process.phases[k].next.kind = "termination"
                   /\ process.phases[k].next.id # "undefined"
                   /\ process.phases[k].next.terminate = "none"}

\* C12: the terminate callback of a Termination is optional: a process with a node
\* whose next is a Termination {id} without callback passes validation (the validator
\* of the Termination-based engine reports no defect for that next and does not
\* throw), and when that node completes its raw output is stored in the result set
\* under the termination's id, not under the node's id.
C12_TerminateOptional ==
    \A nodeId \in TerminatingWithoutCallback :
        /\ ~validateProcess(process).threw
        /\ \A i \in 1..Len(validateProcess(process).errors) :
              validateProcess(process).errors[i].node # nodeId
        /\ (engine = "phase" /\ nodeId \in DOMAIN phaseResults) =>
              /\ process.phases[nodeId].next.id \in DOMAIN results
              /\ results[process.phases[nodeId].next.id] = phaseResults[nodeId]
              /\ nodeId \notin DOMAIN results

TerminateFailed(nodeId) ==
    \E i \in 1..Len(errors) : errors[i] = ExecutionError(nodeId, "terminate")

\* the ids of the Terminations of the process definition
TerminationIds ==
    {process.phases[k].next.id : k \in {n \in Nodes : process.phases[n].next.kind = "termination"}}

\* the completed nodes whose next is a Termination
CompletedTerminating ==
    {k \in Nodes \cap DOMAIN phaseResults : process.phases[k].next.kind = "termination"}

\* C13 as stated: for a completed node whose next is a Termination, the completed
\* results hold the node's output under the node's id, the result set holds an entry
\* under the termination's id and none under the node's id, and the termination entry
\* is in the final result set whether or not other nodes declare isEndPhase.
C13_TerminationEntry ==
    \A nodeId \in CompletedTerminating :
        /\ \E i \in 1..Len(calls[nodeId]) :
              phaseResults[nodeId] = execute(nodeId, calls[nodeId][i])
        /\ process.phases[nodeId].next.id \in DOMAIN results
        /\ nodeId \notin DOMAIN results
        /\ (pc = "resolved" /\ engine = "phase" /\ nodeId \in DOMAIN returned[2]) =>
              process.phases[nodeId].next.id \in DOMAIN ResultSet

\* C13, amended: this holds when the terminate callback returned.  When it threw, the
\* node keeps its completed result, the error is recorded under the node's id and
\* the node contributes no entry.  (No entry under the node's id: unless that id is the
\* id of a Termination.)
C13_TerminationEntryUnlessThrown ==
    \A nodeId \in CompletedTerminating :
        /\ \E i \in 1..Len(calls[nodeId]) :
              phaseResults[nodeId] = execute(nodeId, calls[nodeId][i])
        /\ nodeId \notin TerminationIds => nodeId \notin DOMAIN results
        /\ ~TerminateFailed(nodeId) =>
              /\ process.phases[nodeId].next.id \in DOMAIN results
              /\ (pc = "resolved" /\ engine = "phase" /\ nodeId \in DOMAIN returned[2]) =>
                    process.phases[nodeId].next.id \in DOMAIN ResultSet
        /\ (TerminateFailed(nodeId) /\ TerminationIds \cap Leaves = {}
               /\ CompletedTerminating = {nodeId})
              => process.phases[nodeId].next.id \notin DOMAIN results

\* the call returned the entry of Termination 'end' of the completed node p2 while
\* other nodes declare isEndPhase; p2 has a completed result and no entry of its own
C13_Witness ==
    /\ \E ends \in SUBSET Ids : ends # {} /\ process = WithEnds(FanTermination("end", "end2"), ends)
    /\ pc = "resolved"
    /\ P(2) \in DOMAIN returned[2]
    /\ "end" \in DOMAIN ResultSet
    /\ ResultSet["end"] = phaseResults[P(2)]
    /\ P(2) \notin DOMAIN ResultSet

----------------------------------------------------------------------------
(* Failures of transforms and of phases *)

\* the transform evaluations of the run that threw
ThrownTransforms == {i \in 1..Len(transformCalls) : transformCalls[i].outcome = "throw"}

\* the transform of connection j of node nodeId has thrown
EdgeFailed(nodeId, j) ==
    \E i \in ThrownTransforms :
        transformCalls[i].from = nodeId /\ transformCalls[i].index = j

PhaseFailed(nodeId) ==
    \E i \in 1..Len(errors) : errors[i] = ExecutionError(nodeId, "phase")

\* what the tables of the run make the result set
RunResults == IF engine = "phase" THEN results ELSE gatherResults(process, phaseResults)

\* C14: edge isolation: when the transform of one outgoing connection of node n
\* throws, only that edge is skipped: n stays completed, and every other connection of
\* n, before and after it in the list, is dispatched: its target has been invoked, and
\* once the run is quiescent a target whose phase did not fail has its completed
\* result and, being a terminal node, its entry in the result set.
C14_EdgeIsolation ==
    \A i \in ThrownTransforms :
        LET n == transformCalls[i].from IN
        /\ n \in DOMAIN phaseResults
        /\ \A j \in 1..Len(ConnectionsOf(n)) :
              LET target == ConnectionsOf(n)[j].targetPhaseNodeId IN
              (~EdgeFailed(n, j) /\ target \in Ids) =>
                 /\ calls[target] # <<>>
                 /\ (Quiescent /\ ~PhaseFailed(target)) =>
                       /\ target \in DOMAIN phaseResults
                       /\ (isLeafNode(process.phases[target]) /\ Ends = {}
                             /\ target \notin Terminating)
                          => target \in DOMAIN RunResults

\* in the fan-out p1 -> [p2, p3] the transform of the first connection threw and the
\* second connection was dispatched all the same: p3 ran and has its result, p2 never ran
C14_Witness ==
    /\ \E ends \in SUBSET Ids : process = WithEnds(Fan(AllTransforms), ends)
    /\ EdgeFailed(P(1), 1)
    /\ ~EdgeFailed(P(1), 2)
    /\ calls[P(2)] = <<>>
    /\ P(1) \in DOMAIN phaseResults
    /\ P(3) \in DOMAIN phaseResults
    /\ P(3) \in DOMAIN RunResults
    /\ Quiescent

\* the node ids a path of connections leads to from the start node without passing
\* through connection j of node nodeId
RECURSIVE ReachableWithout(_, _, _, _)
ReachableWithout(nodeId, j, seen, k) ==
    LET succ == UNION {{process.phases[n].next.conns[c].targetPhaseNodeId :
                           c \in {d \in 1..Len(process.phases[n].next.conns) :
                                     <<n, d>> # <<nodeId, j>>}} : n \in seen}
        more == (seen \cup succ) \cap DOMAIN process.phases
    IN IF k = 0 \/ more = seen THEN seen ELSE ReachableWithout(nodeId, j, more, k - 1)

\* the nodes that are reachable from the start only through connection j of nodeId
OnlyThrough(nodeId, j) ==
    Reachable \ ReachableWithout(nodeId, j, {process.startPhaseId}, NumNodes)

\* the step in which nodeId completes and the transform of its only connection throws
SoleTransformThrows(nodeId) ==
    /\ Completes(nodeId)
    /\ Len(ConnectionsOf(nodeId)) = 1
    /\ Len(transformCalls') = Len(transformCalls) + 1
    /\ transformCalls'[Len(transformCalls')].outcome = "throw"

\* C15: when the transform on edge P1 -> P2 throws, P2 and every node reachable only
\* through that edge are never invoked and get no completed result and no entry in the
\* result set; the step of the failing transform adds exactly one entry, keyed by P2,
\* to the error list, invokes no phase and leaves the context as it was; in the chain
\* P1 -> P2 -> P3 the error list is exactly that entry, the completed results
\* contain P1 only and the result set is empty.
C15_TransformFailure ==
    /\ [](\A i \in ThrownTransforms :
            \A k \in OnlyThrough(transformCalls[i].from, transformCalls[i].index) :
                /\ calls[k] = <<>>
                /\ k \notin DOMAIN phaseResults
                /\ k \notin DOMAIN RunResults)
    /\ [][\A nodeId \in Ids : SoleTransformThrows(nodeId) =>
              /\ errors' = Append(errors,
                     ExecutionError(ConnectionsOf(nodeId)[1].targetPhaseNodeId, "transform"))
              /\ context' = context
              /\ calls' = calls
              /\ results' = results]_vars
    /\ []((/\ \E tr \in {"tA", "tKeep"}, ends \in SUBSET (Ids \ {P(1)}) :
                process = WithEnds(Chain(tr), ends)
           /\ EdgeFailed(P(1), 1))
          => /\ errors = <<ExecutionError(P(2), "transform")>>
             /\ DOMAIN phaseResults = {P(1)}
             /\ RunResults = EmptyMap
             /\ context = process.context
             /\ pc = "resolved" => ResultSet = EmptyMap
             /\ (pc = "resolved" /\ engine = "phase") =>
                   returned = <<EmptyMap, phaseResults, process.context>>)

\* the chain whose first edge has a throwing transform has returned: empty result
\* set, P1 alone completed, one error keyed by P2, P2 and P3 never invoked
C15_Witness ==
    /\ \E ends \in SUBSET Ids : process = WithEnds(Chain("tA"), ends)
    /\ pc = "resolved"
    /\ EdgeFailed(P(1), 1)
    /\ errors = <<ExecutionError(P(2), "transform")>>
    /\ calls[P(2)] = <<>>
    /\ calls[P(NumNodes)] = <<>>
    /\ P(NumNodes) \in OnlyThrough(P(1), 1)
    /\ ResultSet = EmptyMap
    /\ DOMAIN phaseResults = {P(1)}

\* the node ids a path of connections leads to from the start node without passing
\* through node avoid
RECURSIVE ReachableAvoiding(_, _, _)
ReachableAvoiding(avoid, seen, k) ==
    LET succ == UNION {{process.phases[n].next.conns[j].targetPhaseNodeId :
                           j \in 1..Len(process.phases[n].next.conns)} : n \in seen}
        more == ((seen \cup succ) \cap DOMAIN process.phases) \ {avoid}
    IN IF k = 0 \/ more = seen THEN seen ELSE ReachableAvoiding(avoid, more, k - 1)

\* the errors recorded for failures of the phase of nodeId
PhaseErrors(nodeId) == {i \in 1..Len(errors) : errors[i] = ExecutionError(nodeId, "phase")}

\* the failure of the phase of nodeId is local to nodeId: one error under its id, no
\* completed result, none of its connections dispatched, and, the failures of the run
\* being those recorded under nodeId, the rest of the graph runs to completion
PhaseFailureIsolated(nodeId) ==
    /\ Cardinality(PhaseErrors(nodeId)) = 1
    /\ nodeId \notin DOMAIN phaseResults
    /\ \A i \in 1..Len(transformCalls) : transformCalls[i].from # nodeId
    /\ \A k \in Reachable \ ReachableAvoiding(nodeId, {process.startPhaseId}, NumNodes) :
          k # nodeId => calls[k] = <<>>
    /\ (Quiescent /\ \A i \in 1..Len(errors) : errors[i].nodeId = nodeId) =>
          \A k \in ReachableAvoiding(nodeId, {process.startPhaseId}, NumNodes) :
              /\ k \in DOMAIN phaseResults
              /\ (isLeafNode(process.phases[k]) /\ Ends = {} /\ k \notin Terminating)
                    => k \in DOMAIN RunResults

\* the nodes other than the start node whose phase has failed
FailedNodes == {n \in Ids \ {process.startPhaseId} : PhaseFailed(n)}

\* C16: when the phase of a non-start node n fails, exactly one error is recorded under
\* n's id, n gets no completed result and none of n's outgoing connections is
\* dispatched, while every sibling branch elsewhere in the graph runs to completion
\* and its results appear in the result set.
C16_PhaseFailureIsolated == \A n \in FailedNodes : PhaseFailureIsolated(n)

\* the same for the nodes whose phase was invoked once
C16_IsolatedIfInvokedOnce ==
    \A n \in FailedNodes : Len(calls[n]) = 1 => PhaseFailureIsolated(n)

\* the error list errs has been emitted, once, by the end of the sequence warns
EmittedOnce(warns, errs) ==
    /\ warns # <<>>
    /\ warns[Len(warns)] = ErrorWarning(errs)
    /\ \A i \in 1..(Len(warns) - 1) : warns[i].warning # ErrorWarning(errs).warning

\* C17: when a run ends with a non-empty error list, the accumulated errors are
\* surfaced to the caller as one aggregated diagnostic together with the result set:
\* the step in which executeProcess returns resolves the call with its result set
\* and emits the error list, once.
C17_ErrorsSurfaced ==
    [][(Returns /\ errors # <<>>) =>
          /\ EmittedOnce(warnings', errors)
          /\ ResultSet' = RunResults]_vars

\* the same for the gatherResults-based executeProcess
C17_GatherErrorsSurfaced ==
    [][(Returns /\ errors # <<>> /\ engine = "execution") =>
          /\ EmittedOnce(warnings', errors)
          /\ ResultSet' = RunResults]_vars

----------------------------------------------------------------------------
(* validateProcess as a function of its input *)

\* C18: validateProcess never throws and always returns a (possibly empty) list, for
\* every input value: null, a non-object, a process whose phases is not an object, a
\* node whose next is a non-array object or a primitive, and a next list containing a
\* null or non-object entry.
C18_NeverThrows == ~validateProcess(process).threw

\* the entries of a defect list
Entries(errs) == {errs[i] : i \in 1..Len(errs)}

\* the connections (node, index) of the node objects of the process definition
Edges ==
    {e \in Nodes \X (1..NumNodes) :
        /\ process.phases[e[1]].next.kind = "connections"
        /\ e[2] <= Len(process.phases[e[1]].next.conns)
        /\ process.phases[e[1]].next.conns[e[2]].type = "object"}

\* The structural defects the process definition carries, each as the entry that
\* reports it: a startPhaseId or a connection target that is no key of the phases
\* collection, an id that differs from its key, a phase without execute, a transform
\* that is no function, a next that is neither a list nor a Termination with an id.
\* ids names the ids that are taken to exist.
CarriedDefects(ids) ==
    (IF process.startPhaseId \notin ids \cup {"undefined", ""}
     THEN {Defect("Start phase ID does not exist in the phases collection", "",
                  process.startPhaseId)}
     ELSE {})
    \cup {Defect("id does not match its key", k, process.phases[k].id) :
             k \in {n \in Nodes : process.phases[n].id # n}}
    \cup {Defect("missing a valid phase instance with an execute method", k, "") :
             k \in {n \in Nodes : process.phases[n].phase # "fn"}}
    \cup {Defect("connection to non-existent targetPhaseNodeId", e[1],
                 process.phases[e[1]].next.conns[e[2]].targetPhaseNodeId) :
             e \in {d \in Edges :
                      process.phases[d[1]].next.conns[d[2]].targetPhaseNodeId
                         \notin ids \cup {"undefined", ""}}}
    \cup {Defect("invalid transform (should be a function)", e[1],
                 process.phases[e[1]].next.conns[e[2]].targetPhaseNodeId) :
             e \in {d \in Edges : process.phases[d[1]].next.conns[d[2]].transform = "nonfn"}}
    \cup {Defect("missing 'next' property", k, "") :
             k \in {n \in Nodes : process.phases[n].next.kind = "missing"}}
    \cup {Defect("invalid 'next' property type", k, "") :
             k \in {n \in Nodes : process.phases[n].next.kind = "primitive"}}
    \cup {Defect("invalid Termination object for 'next'", k, "") :
             k \in {n \in Nodes : /\ process.phases[n].next.kind = "termination"
                                  /\ process.phases[n].next.id = "undefined"}}

\* the list validateProcess returns has an entry for each of the defects
Reported(defects) ==
    /\ defects \subseteq Entries(validateProcess(process).errors)
    /\ Cardinality(Entries(validateProcess(process).errors)) >= Cardinality(defects)

\* C19: validator completeness: validateProcess accumulates defects instead of stopping
\* at the first: for a process object carrying N independent structural defects
\* (dangling startPhaseId, id/key mismatch, missing execute, dangling connection
\* target, non-callable transform, malformed next, in any combination and on any
\* nodes) the list it returns has at least N distinct entries, one for each defect.
C19_Completeness ==
    (process.type = "object" /\ process.phasesType = "object"
        /\ ~validateProcess(process).threw)
    => Reported(CarriedDefects(DOMAIN process.phases))

\* the same when the ids that the phases collection inherits are taken to exist
C19_CompletenessOwnOrInherited ==
    (process.type = "object" /\ process.phasesType = "object"
        /\ ~validateProcess(process).threw)
    => Reported(CarriedDefects(DOMAIN process.phases \cup {Inherited}))

\* validateProcess has returned the empty list
Validated == ~validateProcess(process).threw /\ validateProcess(process).errors = <<>>

\* the definition is well-formed, ids being the ids that are taken to exist
WellFormed(ids) ==
    /\ process.type = "object"
    /\ process.phasesType = "object"
    /\ process.startPhaseId \in ids
    /\ Nodes = DOMAIN process.phases
    /\ \A k \in Nodes :
          /\ process.phases[k].id = k
          /\ process.phases[k].phase = "fn"
          /\ process.phases[k].next.kind \in {"connections", "termination"}
          /\ \A j \in 1..Len(process.phases[k].next.conns) :
                /\ process.phases[k].next.conns[j].type = "object"
                /\ process.phases[k].next.conns[j].targetPhaseNodeId \in ids
                /\ process.phases[k].next.conns[j].transform # "nonfn"

\* no run records a 'PhaseNode with ID ... not found' error
C20_NeverNotFound == \A i \in 1..Len(errors) : errors[i].error # "not found"

\* C20: validator soundness: if validateProcess returns the empty list, then
\* startPhaseId names an existing node, every node's id equals its key, every node has
\* a phase with a callable execute, every connection target names an existing node and
\* every declared transform is callable; consequently a run of a validated process
\* never records a 'PhaseNode with ID ... not found' error.
C20_Soundness ==
    /\ Validated => WellFormed(DOMAIN process.phases)
    /\ C20_NeverNotFound

\* the same when the ids that the phases collection inherits are taken to exist
C20_SoundnessOwnOrInherited ==
    /\ Validated => WellFormed(DOMAIN process.phases \cup {Inherited})
    /\ C20_NeverNotFound

----------------------------------------------------------------------------
(* validateProcess on a value that is no object *)

\* C21: when the input of validateProcess is null, undefined or not an object, the
\* returned list is exactly the single entry "Process definition is missing or not an
\* object." and nothing else is probed (no further entry, no TypeError); executeProcess
\* rejects with that one entry.
C21_RootDefectOnly ==
    process.type # "object" =>
        /\ validateProcess(process) = Returned(rootDefects)
        /\ Len(validateProcess(process).errors) = 1
        /\ (engine = "phase" /\ pc # "idle") =>
              /\ pc = "rejected"
              /\ thrown.defects = rootDefects

C21_Witness ==
    /\ engine = "phase"
    /\ process = NullProcess
    /\ pc = "rejected"
    /\ thrown = [message |-> "Invalid process definition:", defects |-> rootDefects]

----------------------------------------------------------------------------
(* validateProcess and reachability *)

\* the process definition with another startPhaseId: the same nodes, reached otherwise
Restart(start) == [process EXCEPT !.startPhaseId = start]

\* the entries of a defect list that are about a node
NodeEntries(errs) == SelectSeq(errs, LAMBDA e : e.node # "")

\* the entries of a defect list that are about node k
EntriesOf(errs, k) == SelectSeq(errs, LAMBDA e : e.node = k)

\* the node objects a path of connections through node objects leads to from seen
RECURSIVE ReachableObjects(_, _)
ReachableObjects(seen, k) ==
    LET succ == UNION {{process.phases[n].next.conns[j].targetPhaseNodeId :
                           j \in 1..Len(process.phases[n].next.conns)} : n \in seen}
        more == (seen \cup succ) \cap Nodes
    IN IF k = 0 \/ more = seen THEN seen ELSE ReachableObjects(more, k - 1)

\* the node objects no path of connections from the start node leads to
Unreached == Nodes \ ReachableObjects({process.startPhaseId} \cap Nodes, NumNodes)

\* node k is well-formed, ids being the ids that are taken to exist
WellFormedNode(k, ids) ==
    /\ process.phases[k].id = k
    /\ process.phases[k].phase = "fn"
    /\ \/ process.phases[k].next.kind = "connections"
       \/ process.phases[k].next.kind = "termination" /\ isTermination(process.phases[k].next)
    /\ \A j \in 1..Len(process.phases[k].next.conns) :
          /\ process.phases[k].next.conns[j].type = "object"
          /\ process.phases[k].next.conns[j].targetPhaseNodeId \in ids
          /\ process.phases[k].next.conns[j].transform # "nonfn"

\* the walk of validateProcess visits the node objects that are reachable, and only those
C22_WalkVisitsReachable ==
    (process.type = "object" /\ process.phasesType = "object")
    => walkVisited(process) = Nodes \ Unreached

\* C22: the defect list of validateProcess does not depend on reachability from
\* startPhaseId: moving the start (so that other nodes are reachable, or none) changes
\* neither whether the call throws nor any entry about a node; a well-formed node that
\* no path from the start reaches has no entry, and a node with a defect that no path
\* reaches has the entries it has when it is the start node.
C22_ReachabilityIrrelevant ==
    (process.type = "object" /\ process.phasesType = "object")
    =>
    /\ C22_WalkVisitsReachable
    /\ \A start \in DOMAIN process.phases \cup {Dangling} :
          /\ validateProcess(Restart(start)).threw = validateProcess(process).threw
          /\ NodeEntries(validateProcess(Restart(start)).errors)
                = NodeEntries(validateProcess(process).errors)
    /\ ~validateProcess(process).threw =>
          \A k \in Unreached :
             /\ WellFormedNode(k, DOMAIN process.phases \cup {Inherited})
                   => EntriesOf(validateProcess(process).errors, k) = <<>>
             /\ EntriesOf(validateProcess(process).errors, k)
                   = EntriesOf(validateProcess(Restart(k)).errors, k)

\* a definition with a dangling target in a node that no path reaches is rejected with
\* the entry of that target alone
C22_Witness ==
    /\ engine = "phase"
    /\ process = DanglingTargetUnreachable
    /\ P(NumNodes) \in Unreached
    /\ pc = "rejected"
    /\ thrown.defects = <<Defect("connection to non-existent targetPhaseNodeId",
                                 P(NumNodes), Dangling)>>

----------------------------------------------------------------------------
(* The shared context *)

\* the context the run holds after the first j transform evaluations: what the last of
\* them that returned has stored, the context of the process definition if none has
RECURSIVE LastStored(_)
LastStored(j) ==
    IF j = 0 THEN process.context
    ELSE IF transformCalls[j].outcome = "return"
    THEN transform(transformCalls[j].name, transformCalls[j].output,
                   transformCalls[j].context)[2]
    ELSE LastStored(j - 1)

\* every transform is evaluated with the context the last successful transform before it
\* has stored, wherever in the graph that one was, and that context is the run's context
C23_TransformsShareContext ==
    engine = "phase" =>
        /\ context = LastStored(Len(transformCalls))
        /\ \A i \in 1..Len(transformCalls) : transformCalls[i].context = LastStored(i - 1)

\* a terminate callback is evaluated with the context the last successful transform has
\* stored, and executeProcess returns the context the run holds when it returns
C23_CallbacksShareContext ==
    [][/\ Len(terminateCalls') > Len(terminateCalls)
          => LastTerminate.context = LastStored(Len(transformCalls))
       /\ (Returns /\ engine = "phase") => returned'[3] = LastStored(Len(transformCalls))]_vars

\* the context executeProcess has returned is the one the last successful transform of
\* the run has stored
C23_ReturnedContextIsLast ==
    (engine = "phase" /\ pc = "resolved") => returned[3] = LastStored(Len(transformCalls))

\* C23: once a transform returns a replacement context, that value is the run's single
\* shared context: every transform and terminate callback evaluated afterwards anywhere
\* in the graph receives it until another transform replaces it, and the context
\* returned by executeProcess is the one stored by the last successful transform.
C23_SharedContext ==
    /\ []C23_TransformsShareContext
    /\ C23_CallbacksShareContext
    /\ []C23_ReturnedContextIsLast

\* the same, the returned context being the one stored by the last successful transform
\* before the return
C23_SharedContextUntilReturn ==
    /\ []C23_TransformsShareContext
    /\ C23_CallbacksShareContext

\* a terminate callback two edges away receives the context the transforms have left
C23_Reached ==
    /\ process = TransformTermination
    /\ Len(terminateCalls) = 1
    /\ terminateCalls[1].context = <<"tA", "tB">>
    /\ pc = "resolved"
    /\ returned[3] = <<"tA">>

----------------------------------------------------------------------------
(* The shape predicates *)

\* what the declarations of the shapes ask of a value
IsString(field) == field \notin {"undefined", NotAString}

PhaseShape(v) == v.type = "object" /\ v.name = "string" /\ v.execute = "function"

ConnectionShape(v) ==
    /\ v.type = "object"
    /\ v.kind = "connection"
    /\ IsString(v.targetPhaseNodeId)
    /\ v.transform # "nonfn"

\* terminate is optional
TerminationShape(v) ==
    /\ v.type = "object"
    /\ v.kind \in {"connection", "termination"}
    /\ v.targetPhaseNodeId = "undefined"
    /\ IsString(v.id)
    /\ v.terminate \in {"fn", "none"}

PhaseNodeShape(v) ==
    /\ v.type = "object"
    /\ v.id = "string"
    /\ PhaseShape(v.phase)
    /\ \/ TerminationShape(v.next)
       \/ /\ v.next.type = "object"
          /\ v.next.kind = "connections"
          /\ \A j \in 1..Len(v.next.conns) : ConnectionShape(v.next.conns[j])

ProcessShape(v) ==
    /\ v.type = "object"
    /\ v.name = "string"
    /\ v.context = "object"
    /\ v.phases = "object"
    /\ v.startPhaseId = "string"

Shape(predicate, v) ==
    CASE predicate = "isPhase" -> PhaseShape(v)
      [] predicate = "isPhaseNode" -> PhaseNodeShape(v)
      [] predicate = "isProcess" -> ProcessShape(v)
      [] predicate = "isConnection" -> ConnectionShape(v)
      [] predicate = "isTermination" -> TerminationShape(v)

\* a predicate answers false for null, undefined and a primitive
C24_FalseOnNonObjects ==
    (pc = "resolved" /\ process.value.type # "object") => returned.value = FALSE

\* no value is both a connection and a Termination for the predicates
C24_Exclusive ==
    process.shape = "Transition" => ~(isConnection(process.value) /\ isTermination(process.value))

\* a predicate answers true exactly for the values of its shape
C24_Exact == pc = "resolved" => (returned.value <=> Shape(returned.predicate, process.value))

\* C24: the shape predicates isPhase, isPhaseNode, isProcess, isConnection and
\* isTermination return false without throwing for null, undefined and primitives,
\* return true exactly for values having the fields of the respective shape with the
\* required types, and no value satisfies both isConnection and isTermination.
C24_ShapePredicates == C24_FalseOnNonObjects /\ C24_Exclusive /\ C24_Exact

\* what holds of them: false for null, undefined and primitives, never both
\* isConnection and isTermination, isPhase exact, and true for every value of the shape
\* but a Termination without callback
C24_ShapePredicatesLenient ==
    /\ C24_FalseOnNonObjects
    /\ C24_Exclusive
    /\ (pc = "resolved" /\ returned.predicate = "isPhase") => C24_Exact
    /\ (pc = "resolved" /\ Shape(returned.predicate, process.value))
          => (returned.value \/ (returned.predicate = "isTermination"
                                    /\ process.value.terminate = "none"))

----------------------------------------------------------------------------
(* The in-flight table *)

\* the nodes that are in the in-flight table although no invocation of their phase is
\* in course
StaleMarkers == activeExecutions \ DOMAIN pending

\* the in-flight marker of a node whose phase invocation has completed or failed is gone,
\* and the table is empty once every triggered execution has finished
C25_NoStaleMarker ==
    /\ StaleMarkers = {}
    /\ Quiescent => activeExecutions = {}

\* the step in which the promise a phase has returned settles removes the marker
C25_ReleasedOnSettle ==
    [][\A nodeId \in DOMAIN pending :
          nodeId \notin DOMAIN pending' => nodeId \notin activeExecutions']_vars

\* C25: the in-flight marker of a node is always released: whenever a node's phase
\* invocation has completed or failed, including when the phase throws before its first
\* suspension point, the node is no longer in the in-flight table, so that once all
\* triggered executions have finished the in-flight table is empty.
C25_MarkerReleased == []C25_NoStaleMarker /\ C25_ReleasedOnSettle

\* the same for the invocations that did not throw synchronously: a marker without an
\* invocation in course is that of a node whose phase (or the read of whose phase) threw
\* before executeNodeRecursive set the marker
C25_ReleasedUnlessThrownSynchronously ==
    /\ [](\A nodeId \in StaleMarkers :
             \E i \in 1..Len(errors) :
                 /\ errors[i].nodeId = nodeId
                 /\ errors[i].error \in {"phase", "TypeError"})
    /\ [](\A nodeId \in DOMAIN pending : nodeId \in activeExecutions)
    /\ C25_ReleasedOnSettle

----------------------------------------------------------------------------
(* The state of a node in a run *)

\* the state the two tables of the run give node nodeId: 2 is Completed (it has a
\* completed result), 1 InFlight (it has an in-flight marker), 0 NotStarted
NodeState(phaseRes, active, nodeId) ==
    IF nodeId \in DOMAIN phaseRes THEN 2
    ELSE IF nodeId \in active THEN 1
    ELSE 0

\* the step records a failure of the phase of nodeId
PhaseFails(nodeId) ==
    /\ Len(errors') = Len(errors) + 1
    /\ errors'[Len(errors')] = ExecutionError(nodeId, "phase")

\* C26: per-node execution state is monotonic: within one run each node only moves
\* NotStarted -> InFlight -> Completed and never regresses; in particular a node that
\* has been in flight never becomes NotStarted again, also when its phase fails.
C26_Monotonic ==
    [][\A nodeId \in Ids :
          NodeState(phaseResults', activeExecutions', nodeId)
             >= NodeState(phaseResults, activeExecutions, nodeId)]_vars

\* the same but for the step in which the phase of the node fails, which takes the node
\* from InFlight back to NotStarted; a completed node stays completed with its output
C26_MonotonicUnlessFailed ==
    [][\A nodeId \in Ids :
          /\ \/ NodeState(phaseResults', activeExecutions', nodeId)
                   >= NodeState(phaseResults, activeExecutions, nodeId)
             \/ /\ PhaseFails(nodeId)
                /\ NodeState(phaseResults, activeExecutions, nodeId) = 1
                /\ NodeState(phaseResults', activeExecutions', nodeId) = 0
          /\ nodeId \in DOMAIN phaseResults =>
                /\ nodeId \in DOMAIN phaseResults'
                /\ phaseResults'[nodeId] = phaseResults[nodeId]]_vars

----------------------------------------------------------------------------
(* Arrivals at a node that is in flight *)

\* the step dispatches a connection to target: a node completes that has a connection
\* to it whose transform, if any, returns
Arrives(target) ==
    \E nodeId \in Ids :
        /\ Completes(nodeId)
        /\ hasConnections(process.phases[nodeId])
        /\ \E j \in 1..Len(ConnectionsOf(nodeId)) :
              /\ ConnectionsOf(nodeId)[j].targetPhaseNodeId = target
              /\ \A i \in (Len(transformCalls) + 1)..Len(transformCalls') :
                    transformCalls'[i].index = j => transformCalls'[i].outcome = "return"

\* the execution of a node that is in flight is the one invocation of its phase that is
\* in course: the last one, with the input of the arrival that started it
C27_OneExecutionInFlight ==
    \A nodeId \in DOMAIN pending :
        /\ nodeId \in activeExecutions
        /\ calls[nodeId] # <<>>
        /\ pending[nodeId] = calls[nodeId][Len(calls[nodeId])]

\* C27: if node n is in flight when a second path reaches it, the second arrival
\* receives the same pending handle as the first, the phase of n is not invoked again,
\* and both arrivals observe the same outcome: the arrival leaves the invocations of n
\* and the one execution in course as they are, and that execution settles once, with
\* the output of the input of the first arrival or with its failure; arrivals at a node
\* in the same fan-out invoke its phase once.
C27_SharedExecution ==
    /\ []C27_OneExecutionInFlight
    /\ [][\A n \in Ids :
             /\ (n \in activeExecutions /\ Arrives(n)) =>
                   /\ calls'[n] = calls[n]
                   /\ (n \in DOMAIN pending /\ ~Completes(n)) =>
                         /\ n \in DOMAIN pending'
                         /\ pending'[n] = pending[n]
                         /\ n \in activeExecutions'
                         /\ n \notin DOMAIN phaseResults'
                         /\ ~PhaseFails(n)
             /\ Len(calls'[n]) <= Len(calls[n]) + 1
             /\ (n \in DOMAIN pending /\ Completes(n)) =>
                   phaseResults'[n] = execute(n, pending[n])]_vars

\* the Diamond: pN, invoked by the fan-out of p1, is still in flight when p2 has
\* completed and dispatched its connection to pN
C27_Witness ==
    /\ process = Diamond
    /\ P(2) \in DOMAIN phaseResults
    /\ P(NumNodes) \in DOMAIN pending
    /\ calls[P(NumNodes)] = <<execute(P(1), initialInput)>>
    /\ errors = <<>>

----------------------------------------------------------------------------
(* A node and its successors *)

\* the step records a failure under the id of a node other than nodeId
OtherFails(nodeId) ==
    /\ Len(errors') > Len(errors)
    /\ \A i \in (Len(errors) + 1)..Len(errors') : errors'[i].nodeId # nodeId

\* C28: a node's completion does not wait for nor depend on its successors: the step
\* in which node n completes and dispatches its connections gives n its own output as
\* completed result and resolves the handle of n (the promise executeProcess awaits, when
\* n is the start node), whether the successors it triggers are pending or have failed;
\* a later failure of any successor never turns n's handle into a failure, never removes
\* n's completed result and never makes executeProcess reject.
C28_CompletionIndependent ==
    /\ [][\A n \in Ids :
             /\ (Completes(n) /\ hasConnections(process.phases[n])) =>
                   /\ phaseResults'[n] = execute(n, pending[n])
                   /\ (n = process.startPhaseId /\ startPromise = "pending")
                         => startPromise' = "fulfilled"
             /\ (n \in DOMAIN phaseResults /\ OtherFails(n)) =>
                   /\ n \in DOMAIN phaseResults'
                   /\ phaseResults'[n] = phaseResults[n]
                   /\ n \notin (DOMAIN results) \ (DOMAIN results')
                   /\ startPromise' = startPromise
                   /\ pc' = pc]_vars
    /\ [](Started => thrown = <<>>)
    /\ []((pc = "resolved" /\ engine = "phase" /\ startPromise = "fulfilled")
             => process.startPhaseId \in DOMAIN returned[2])

\* the start node of the chain has completed and executeProcess has resolved with its
\* result although the phase of its successor has failed
C28_Witness ==
    /\ process = Chain(NoTransform)
    /\ engine = "phase"
    /\ startPromise = "fulfilled"
    /\ errors = <<ExecutionError(P(2), "phase")>>
    /\ pc = "resolved"
    /\ returned[2] = [k \in {P(1)} |-> execute(P(1), initialInput)]

----------------------------------------------------------------------------
(* Termination of a run *)

\* the run is over: executeProcess has settled and no phase invocation is in course
Finished == pc \in {"rejected", "resolved"} /\ pending = EmptyMap

\* the phase of a node is invoked at most once for each connection that leads to it, and
\* once more if it is the start node
C29_InvocationsBounded ==
    Started =>
        \A nodeId \in Ids :
            Len(calls[nodeId])
               <= Cardinality(EdgesInto(nodeId))
                  + (IF nodeId = process.startPhaseId THEN 1 ELSE 0)

\* C29: every run terminates: for any finite validated graph, including graphs with
\* cycles and self-loops, and under the assumption that each phase invocation eventually
\* completes or fails, the run eventually reaches a state with no node in flight and no
\* further phase invocation (it stays there), and the total number of phase invocations
\* is bounded (by the number of connections, plus one for the start).
C29_Terminates ==
    /\ Started ~> Finished
    /\ [][Finished => Finished']_vars
    /\ [][(Started /\ pending = EmptyMap) => calls' = calls]_vars
    /\ []C29_InvocationsBounded

\* a run over the cycle p1 -> ... -> p1 has come to its end, every node invoked once
C29_Witness ==
    /\ process = Cycle(NoTransform)
    /\ Finished
    /\ DOMAIN phaseResults = Ids
    /\ \A nodeId \in Ids : Len(calls[nodeId]) = 1
    /\ errors = <<>>

----------------------------------------------------------------------------
(* The order of the transforms of one fan-out *)

\* the transform evaluations a step adds
NewTransforms == SubSeq(transformCalls', Len(transformCalls) + 1, Len(transformCalls'))

\* the connections of nodeId that carry a transform, in their declared order
TransformEdges(nodeId) ==
    SelectSeq([j \in 1..Len(ConnectionsOf(nodeId)) |-> j],
              LAMBDA j : ConnectionsOf(nodeId)[j].transform # NoTransform)

\* the context a transform evaluation leaves
ContextAfter(call) ==
    IF engine = "phase" /\ call.outcome = "return"
    THEN transform(call.name, call.output, call.context)[2]
    ELSE call.context

\* the step is the fan-out of nodeId
FansOut(nodeId) == Completes(nodeId) /\ hasConnections(process.phases[nodeId])

\* C30: within the fan-out of one completed node, the transforms of its connections are
\* evaluated in the declared order of the connection list, each receiving the context
\* left by the previous one, and no transform, terminate callback or phase completion
\* of another node takes place between the first and the last of them; only the
\* triggered successor executions (the invocations of the targets' phases) interleave.
C30_FanOutOrder ==
    [][/\ \A nodeId \in Ids :
             FansOut(nodeId) =>
                /\ Len(NewTransforms) = Len(TransformEdges(nodeId))
                /\ \A i \in 1..Len(NewTransforms) :
                      /\ NewTransforms[i].from = nodeId
                      /\ NewTransforms[i].index = TransformEdges(nodeId)[i]
                      /\ NewTransforms[i].name
                            = ConnectionsOf(nodeId)[TransformEdges(nodeId)[i]].transform
                      /\ NewTransforms[i].output = phaseResults'[nodeId]
                      /\ NewTransforms[i].context
                            = IF i = 1 THEN context ELSE ContextAfter(NewTransforms[i - 1])
                /\ SubSeq(transformCalls', 1, Len(transformCalls)) = transformCalls
                /\ terminateCalls' = terminateCalls
                /\ DOMAIN phaseResults' = DOMAIN phaseResults \cup {nodeId}
       /\ (\A nodeId \in Ids : ~FansOut(nodeId)) => transformCalls' = transformCalls]_vars

\* the fan-out of p1 has evaluated the transforms of its connections in order, the
\* second with the context the first has left, and the successors it triggered are
\* still pending
C30_Witness ==
    /\ NumNodes >= 3
    /\ process = Fan(AllTransforms)
    /\ engine = "phase"
    /\ Len(transformCalls) = NumNodes - 1
    /\ transformCalls[1].index = 1 /\ transformCalls[1].context = <<>>
    /\ transformCalls[2].index = 2 /\ transformCalls[2].context = <<"tA">>
    /\ DOMAIN pending = Ids \ {P(1)}

----------------------------------------------------------------------------
(* Two calls on one Process value *)

\* the step is one of the call whose steps are being taken
StepOfCall == otherCall'.call = otherCall.call

\* What call c has invoked, it has invoked for itself: once c has begun, it has invoked
\* the start node with the initial input; every node that is completed or in flight in c
\* was invoked by c; and when c has come to rest without an error, c has invoked every
\* node that can be reached from the start node, once, and holds its completed result.
InvokedByItself(c) ==
    c.pc \in {"running", "resolved"} =>
        /\ c.calls[process.startPhaseId] # <<>>
        /\ c.calls[process.startPhaseId][1] = initialInput
        /\ \A n \in DOMAIN c.phaseResults \cup DOMAIN c.pending : c.calls[n] # <<>>
        /\ (c.pc = "resolved" /\ c.pending = EmptyMap /\ c.errors = <<>>) =>
              \A n \in Reachable : Len(c.calls[n]) = 1 /\ n \in DOMAIN c.phaseResults

C31_EachCallInvokesItself == InvokedByItself(ThisCall) /\ InvokedByItself(otherCall)

\* a step of one call leaves the state of the other call as it is; the context its
\* first transform receives is the one the Process value holds, whichever call stored it
C31_OnlyContextShared ==
    [][StepOfCall =>
          /\ otherCall' = otherCall
          /\ Len(transformCalls') > Len(transformCalls) =>
                transformCalls'[Len(transformCalls) + 1].context = context]_vars

\* C31: the completed, in-flight and error tables are owned by one executeProcess call:
\* when two calls run interleaved on the same Process value, a node completed or in
\* flight in one call is not treated as completed or in flight by the other, each call
\* invokes every node it reaches itself, and the only state the two calls share is the
\* context of the process.
C31_RunScopedTables == []C31_EachCallInvokesItself /\ C31_OnlyContextShared

\* one call has completed p1 and its transform has stored a context; the other call has
\* invoked p1 itself, and its transform has received the context the first call stored
C31_Witness ==
    /\ process = TransformTermination
    /\ P(1) \in DOMAIN otherCall.phaseResults
    /\ otherCall.transformCalls # <<>>
    /\ otherCall.transformCalls[1].context = <<>>
    /\ calls[P(1)] = <<initialInput>>
    /\ P(1) \in DOMAIN phaseResults
    /\ transformCalls # <<>>
    /\ transformCalls[1].context = <<"tA">>

----------------------------------------------------------------------------
(* Causality *)

\* the step invokes the phase of nodeId
Invokes(nodeId) == Len(calls'[nodeId]) > Len(calls[nodeId])

\* the input of the last invocation of nodeId is what a connection delivers that leads
\* from a node the step completes to nodeId
DeliveredNow(nodeId) ==
    \E e \in EdgesInto(nodeId) :
        /\ Completes(e[1])
        /\ LET connection == ConnectionsOf(e[1])[e[2]]
               input == calls'[nodeId][Len(calls'[nodeId])]
           IN IF connection.transform = NoTransform THEN input = phaseResults'[e[1]]
              ELSE input = <<connection.transform>> \o phaseResults'[e[1]]

\* the start node is invoked by the step in which executeProcess begins the run, with
\* initialInput; every other invocation is made by the step in which a node with a
\* connection to the invoked node completes, the transform of the connection, if any,
\* having returned, and with what that connection delivers
C32_InvokedByCause ==
    [][\A n \in Ids : Invokes(n) =>
          /\ Len(calls'[n]) = Len(calls[n]) + 1
          /\ \/ /\ n = process.startPhaseId
                /\ pc = "idle" /\ pc' = "running"
                /\ calls'[n] = <<initialInput>>
             \/ /\ pc = "running" \/ pc = "resolved"
                /\ Arrives(n)
                /\ DeliveredNow(n)]_vars

\* no node is invoked before the start node has been, the start node is invoked once,
\* and a node other than the start node is invoked only when the start node has
\* completed
C32_StartFirst ==
    \A n \in Ids : calls[n] # <<>> =>
        /\ process.startPhaseId \in Ids
        /\ calls[process.startPhaseId] = <<initialInput>>
        /\ n # process.startPhaseId => process.startPhaseId \in DOMAIN phaseResults

\* C32: causality: the phase of a node other than the start node is invoked only after
\* some node with a connection to it has completed successfully and that connection's
\* transform, if any, has returned without throwing; the start node is invoked first,
\* exactly once, with initialInput.
C32_Causality == C32_InvokedByCause /\ []C32_StartFirst

\* the fan whose first connection carries a transform that threw: p2 was not invoked,
\* the other successors were, with the output of p1
C32_Witness ==
    /\ process = Fan(OneTransform(1))
    /\ errors = <<ExecutionError(P(2), "transform")>>
    /\ calls[P(2)] = <<>>
    /\ \A j \in 3..NumNodes : calls[P(j)] = <<execute(P(1), initialInput)>>
    /\ pending = EmptyMap

----------------------------------------------------------------------------
(* The first arrival at a node *)

\* an arrival at a node that was invoked before leaves its invocations as they are
C33_LaterArrivalsDiscarded ==
    [][\A n \in Ids : (Arrives(n) /\ calls[n] # <<>>) => calls'[n] = calls[n]]_vars

\* the completed result of a node is what its phase makes of the first input delivered
C33_ExecutesFirstInput ==
    \A n \in Ids \cap DOMAIN phaseResults :
        /\ calls[n] # <<>>
        /\ phaseResults[n] = execute(n, calls[n][1])

\* the start node is invoked with initialInput and with nothing else
C33_StartKeepsInitialInput ==
    process.startPhaseId \in Ids => calls[process.startPhaseId] \in {<<>>, <<initialInput>>}

\* C33: a node reached along several paths executes with the input delivered by the
\* traversal that reaches it first; the inputs of all later arrivals are discarded, so a
\* back edge into the start node never re-runs it and never replaces initialInput.
C33_FirstArrivalWins ==
    /\ C33_LaterArrivalsDiscarded
    /\ []C33_ExecutesFirstInput
    /\ []C33_StartKeepsInitialInput

\* the same for the nodes whose phase has not failed: a later arrival at a node that is
\* completed or in flight is discarded, a completed result is made of the input of the
\* last invocation, and the start node keeps initialInput
C33_FirstArrivalWinsUnlessFailed ==
    /\ [][\A n \in Ids :
             (Arrives(n) /\ (n \in DOMAIN phaseResults \/ n \in activeExecutions))
                => calls'[n] = calls[n]]_vars
    /\ [](\A n \in Ids \cap DOMAIN phaseResults :
             /\ calls[n] # <<>>
             /\ phaseResults[n] = execute(n, calls[n][Len(calls[n])])
             /\ Len(calls[n]) > 1 => PhaseFailed(n))
    /\ []C33_StartKeepsInitialInput

----------------------------------------------------------------------------
(* No context update is lost *)

\* the names of the transforms among the first j evaluations that returned a context of
\* their own, in the order of their evaluation
RECURSIVE Stored(_)
Stored(j) ==
    IF j = 0 THEN <<>>
    ELSE IF transformCalls[j].outcome = "return" /\ transformCalls[j].name \notin KeepContext
    THEN Append(Stored(j - 1), transformCalls[j].name)
    ELSE Stored(j - 1)

\* the context of the run holds the update of every transform that has returned, in the
\* order of the evaluations, and every transform has received the updates of all that
\* returned before it
C34_ContextAccumulates ==
    engine = "phase" =>
        /\ context = process.context \o Stored(Len(transformCalls))
        /\ \A i \in 1..Len(transformCalls) :
              transformCalls[i].context = process.context \o Stored(i - 1)

\* a terminate callback receives the updates of all transforms that have returned
\* before it
C34_CallbackReceivesAll ==
    [][Len(terminateCalls') > Len(terminateCalls) =>
          LastTerminate.context = process.context \o Stored(Len(transformCalls))]_vars

\* C34: no context update is lost within a single run: every transform and every
\* terminate callback receives the context most recently stored by a successful
\* transform (or the initial context), because reading the context, evaluating the
\* transform and writing the returned context back happen with no step of another
\* branch in between.
C34_NoLostUpdate == []C34_ContextAccumulates /\ C34_CallbackReceivesAll

\* two branches that p1 started have each evaluated a transform, p3 first: the transform
\* of p2 has received the update of the transform of p3, and the context holds both
C34_Witness ==
    /\ process = Crossed
    /\ engine = "phase"
    /\ Len(transformCalls) = 2
    /\ transformCalls[1].from = P(3)
    /\ transformCalls[2].from = P(2)
    /\ transformCalls[2].context = <<transformCalls[1].name>>
    /\ context = <<transformCalls[1].name, transformCalls[2].name>>

----------------------------------------------------------------------------
(* One evaluation for each transform *)

\* the evaluations of the transform of connection j of nodeId
EvaluationsOf(nodeId, j) ==
    {i \in 1..Len(transformCalls) :
        transformCalls[i].from = nodeId /\ transformCalls[i].index = j}

\* no connection has had its transform evaluated twice, and the evaluations there are
\* belong to connections of nodes that have completed
C35_OneEvaluation ==
    \A nodeId \in Ids : \A j \in 1..NumNodes :
        /\ Cardinality(EvaluationsOf(nodeId, j)) <= 1
        /\ EvaluationsOf(nodeId, j) # {} =>
              /\ nodeId \in DOMAIN phaseResults
              /\ j <= Len(ConnectionsOf(nodeId))
              /\ ConnectionsOf(nodeId)[j].transform # NoTransform

\* a node dispatches its connections in the step in which it completes, and completes
\* once: no transform is evaluated in any other step
C35_DispatchedOnCompletion ==
    [][\A i \in (Len(transformCalls) + 1)..Len(transformCalls') :
          /\ transformCalls'[i].from \in Ids
          /\ Completes(transformCalls'[i].from)]_vars

\* C35: the transform of each connection is evaluated at most once per run, because a
\* node dispatches its outgoing connections only on its single successful completion.
C35_TransformAtMostOnce == []C35_OneEvaluation /\ C35_DispatchedOnCompletion

\* the phase of p3 failed and was invoked again by the arrival from p2; it has completed
\* on the second invocation and the transform of its connection was evaluated once
C35_Witness ==
    /\ process = Crossed
    /\ Len(calls[P(3)]) = 2
    /\ P(3) \in DOMAIN phaseResults
    /\ Cardinality(EvaluationsOf(P(3), 1)) = 1
    /\ pending = EmptyMap

----------------------------------------------------------------------------
(* A connection to a node that is completed or in flight *)

\* the connections of nodeId that carry a transform and lead to a node that has a
\* completed result or an in-flight marker when nodeId completes (nodeId itself has its
\* marker then)
MemoizedEdges(nodeId) ==
    {j \in 1..Len(ConnectionsOf(nodeId)) :
        /\ ConnectionsOf(nodeId)[j].transform # NoTransform
        /\ \/ ConnectionsOf(nodeId)[j].targetPhaseNodeId \in DOMAIN phaseResults
           \/ ConnectionsOf(nodeId)[j].targetPhaseNodeId \in activeExecutions}

\* C36: traversing a connection whose target is already completed or in flight (for
\* example a cycle's back edge) still evaluates that connection's transform and stores
\* the context it returns, while the input it produces is discarded, the target's phase
\* is not invoked and the target's completed result is unchanged.
C36_TransformOfMemoizedTarget ==
    [][\A nodeId \in Ids : FansOut(nodeId) =>
          \A j \in MemoizedEdges(nodeId) :
             LET target == ConnectionsOf(nodeId)[j].targetPhaseNodeId
             IN /\ \E i \in 1..Len(NewTransforms) :
                      /\ NewTransforms[i].from = nodeId
                      /\ NewTransforms[i].index = j
                      /\ NewTransforms[i].name = ConnectionsOf(nodeId)[j].transform
                      /\ NewTransforms[i].output = phaseResults'[nodeId]
                      /\ IF i = Len(NewTransforms)
                         THEN context' = ContextAfter(NewTransforms[i])
                         ELSE NewTransforms[i + 1].context = ContextAfter(NewTransforms[i])
                /\ target \in Ids => calls'[target] = calls[target]
                /\ target \in DOMAIN phaseResults =>
                      /\ target \in DOMAIN phaseResults'
                      /\ phaseResults'[target] = phaseResults[target]
                /\ target = nodeId => phaseResults'[target] = execute(nodeId, pending[nodeId])
                /\ (target \in DOMAIN pending /\ target # nodeId) =>
                      /\ target \in DOMAIN pending'
                      /\ pending'[target] = pending[target]]_vars

\* the cycle: the back edge into the completed start node has been traversed, its
\* transform has stored a context, and the start node keeps its one invocation and its
\* completed result
C36_Witness ==
    /\ process = Cycle("tA")
    /\ engine = "phase"
    /\ P(NumNodes - 1) \in DOMAIN phaseResults
    /\ Len(transformCalls) = 1
    /\ transformCalls[1].outcome = "return"
    /\ context = <<"tA">>
    /\ calls[P(1)] = <<initialInput>>
    /\ phaseResults[P(1)] = execute(P(1), initialInput)

----------------------------------------------------------------------------
(* The tables only grow *)

\* the entries of sequence s are the first entries of sequence t
IsPrefix(s, t) == Len(s) <= Len(t) /\ SubSeq(t, 1, Len(s)) = s

\* the completed result of a node, once recorded, is there in the next state, unchanged
C37_WriteOnce ==
    [][\A n \in DOMAIN phaseResults :
          /\ n \in DOMAIN phaseResults'
          /\ phaseResults'[n] = phaseResults[n]]_vars

\* no key leaves the result set and no entry leaves the error list
C37_OnlyGrow ==
    [][/\ DOMAIN results \subseteq DOMAIN results'
       /\ Cardinality(DOMAIN phaseResults) <= Cardinality(DOMAIN phaseResults')
       /\ IsPrefix(errors, errors')]_vars

\* C37: completed results are write-once: after the output of node n has been recorded
\* in the completed-results table, that entry is never changed or removed for the rest
\* of the run, and the completed-results table, the result set and the error list only
\* grow.
C37_CompletedWriteOnce == C37_WriteOnce /\ C37_OnlyGrow

\* the cycle has come to rest: the start node was reached again over the back edge and
\* holds the result of its one invocation, and every node has its completed result
C37_Witness ==
    /\ process = Cycle(NoTransform)
    /\ engine = "phase"
    /\ pending = EmptyMap
    /\ DOMAIN phaseResults = Ids
    /\ phaseResults[P(1)] = execute(P(1), initialInput)
    /\ P(NumNodes) \in DOMAIN results
    /\ errors = <<>>

----------------------------------------------------------------------------
(* Where the entries of the result set come from *)

\* key is the id of a completed node that has neither connections nor a Termination,
\* and the entry is its output
LeafEntry(key) ==
    /\ key \in Ids \cap DOMAIN phaseResults
    /\ ~hasConnections(process.phases[key])
    /\ engine = "phase" => ~isTermination(process.phases[key].next)
    /\ RunResults[key] = phaseResults[key]

\* key is the id of the Termination of a completed node, and the entry is the output
\* of that node
TerminationEntry(key) ==
    /\ engine = "phase"
    /\ \E n \in Ids \cap DOMAIN phaseResults :
          /\ isTermination(process.phases[n].next)
          /\ process.phases[n].next.id = key
          /\ RunResults[key] = phaseResults[n]

\* key is the id of a completed node that is declared an end phase, whatever its
\* connections, and the entry is its output
EndPhaseEntry(key) ==
    /\ engine = "execution"
    /\ key \in Ids \cap DOMAIN phaseResults
    /\ process.phases[key].isEndPhase
    /\ RunResults[key] = phaseResults[key]

\* C38: in every reachable state, each entry of the result set is derived from a node
\* that completed successfully: its key is the id of a completed node without outgoing
\* connections or the termination id of a completed node, and a node whose phase never
\* completed successfully contributes no entry.
C38_EntriesFromCompleted ==
    \A key \in DOMAIN RunResults : LeafEntry(key) \/ TerminationEntry(key)

\* C38, amended: in the gatherResults-based engine the key may also be the id of a
\* completed node that is declared an end phase and has outgoing connections
C38_EntriesFromCompletedOrEnds ==
    \A key \in DOMAIN RunResults :
        LeafEntry(key) \/ TerminationEntry(key) \/ EndPhaseEntry(key)

\* the chain with its start node declared an end phase, gatherResults-based engine: the
\* start node has completed and has the only entry although it has a connection, and
\* its successor, whose phase failed, has none
C38_Witness ==
    /\ process = WithEnds(Chain(NoTransform), {P(1)})
    /\ engine = "execution"
    /\ DOMAIN RunResults = {P(1)}
    /\ PhaseFailed(P(2))
    /\ pc = "resolved"
    /\ returned = RunResults

----------------------------------------------------------------------------
(* Terminal nodes that store under the same key *)

\* the completed nodes that have stored an entry: those without connections, but for
\* the ones whose terminate callback threw
StoredTerminal ==
    {n \in Ids \cap DOMAIN phaseResults :
        /\ ~hasConnections(process.phases[n])
        /\ ~TerminateFailed(n)}

\* the key a terminal node stores its output under
ResultKey(n) ==
    IF isTermination(process.phases[n].next) THEN process.phases[n].next.id ELSE n

\* every completed terminal node has its output in the result set
C39_OwnEntryKept ==
    engine = "phase" =>
        \A n \in StoredTerminal : \E key \in DOMAIN results : results[key] = phaseResults[n]

\* no entry of the result set is replaced
C39_NoEntryReplaced ==
    [][\A key \in DOMAIN results :
          key \in DOMAIN results' /\ results'[key] = results[key]]_vars

\* C39: every completed terminal node keeps its own entry in the result set: the output
\* of one completed terminal node is never overwritten by another's, also when two
\* nodes carry Terminations with the same id or a Termination's id equals the id of a
\* leaf node (the validator accepts such processes).
C39_NoOverwrite == []C39_OwnEntryKept /\ C39_NoEntryReplaced

\* the same for the definitions in which no two terminal nodes store under one key
C39_NoOverwriteOfDistinctKeys ==
    /\ []((\A m, n \in Ids \cap DOMAIN process.phases :
              (m # n /\ process.phases[m].type = "object" /\ process.phases[n].type = "object"
                 /\ ~hasConnections(process.phases[m]) /\ ~hasConnections(process.phases[n]))
                 => ResultKey(m) # ResultKey(n))
            => C39_OwnEntryKept)
    /\ [][\A key \in DOMAIN results :
             (\A m, n \in StoredTerminal' : m # n => ResultKey(m) # ResultKey(n))
                => (key \in DOMAIN results' /\ results'[key] = results[key])]_vars

====
